---- MODULE Spec2Model ----
(***************************************************************************)
(* State-machine model of the TeamSpeak 3 client engine (TS3Client) and    *)
(* its crypto helpers, src/server/ts3-client.ts.                           *)
(*                                                                         *)
(* Abstractions.  A Buffer holding a big-endian integer is modelled by the *)
(* integer it denotes.  AES-EAX is modelled as an ideal cipher: a packet   *)
(* carries in its mac field the key its tag was computed under, and        *)
(* eaxDecrypt succeeds exactly for that key.  A command payload is a       *)
(* sequence of pieces of text, each piece a (name, params) pair, so that   *)
(* Buffer.concat is sequence concatenation and parseCommand reads the name *)
(* from the first piece.                                                   *)
(***************************************************************************)
EXTENDS Integers, Sequences, FiniteSets, TLC

VARIABLES
  client,   \* the TS3Client object: its fields, plus what the last step did
  lastOp,   \* the operation taken by the last step and its input
  pz,       \* one run of solveRsaPuzzle: inputs, result
  net,      \* the wire to the server and the server's state
  tx,       \* one run of the text functions: input, line, output
  proxy,    \* the UDP relay: one TCP socket, its upgrade request and stream
            \* (under SpecClients: its sockets and the clients table)
  player,   \* the QueueManager object
  panel     \* the WebSocketClient object of the panel and its sockets

vars == <<client, lastOp, pz, net, tx, proxy, player, panel>>

----------------------------------------------------------------------------
\* Bounds of the model
MaxLevel == 3        \* puzzle levels are drawn from 0..MaxLevel
MaxPuzzle == 6       \* puzzle x and n are drawn from 0..MaxPuzzle
MaxOut == 1          \* Ping, Pong and AckLow ids handed out before their source stops
MaxAck == 3          \* Ack ids handed out before the server stops sending commands
MaxCmd == 9          \* Command ids handed out before the application stops sending
MaxRandom == 1       \* random0 and random0_r are drawn from 0..MaxRandom
MaxPid == 1          \* inbound packet ids are drawn from 0..MaxPid
MaxFrags == 2        \* fragments in a row the server sends before an unfragmented packet
NumSecrets == 1      \* distinct DH shared secrets an ephemeral key can produce

\* The safety ceiling of the puzzle level, one below the largest level drawn.
LevelCeiling == MaxLevel - 1

----------------------------------------------------------------------------
\* Program constants
PacketType_Command == 2
PacketType_CommandLow == 3
PacketType_Ping == 4
PacketType_Pong == 5
PacketType_Ack == 6
PacketType_AckLow == 7
PacketType_Init == 8
PacketTypes == 0..8

FLAGS_UNENCRYPTED == 128
FLAGS_COMPRESSED == 64
FLAGS_NEWPROTOCOL == 32
FLAGS_FRAGMENTED == 16

IdModulus == 65536       \* (id + 1) & 0xffff
INIT_PACKET_ID == 101    \* 0x65

Null == "null"

\* The value of sharedIv while it is null.
NoIv == [alpha |-> -1, beta |-> "", secret |-> -1]

\* Keys are records, so that any two can be compared.
MacKey(kind) == [kind |-> kind, dir |-> 0, type |-> 0, gen |-> 0, iv |-> NoIv, pid |-> 0]
FAKE_KEY == MacKey("c:\\windows\\syste")
BadMac == MacKey("bad")         \* a tag that verifies under no key
ZeroMac == MacKey("zero")       \* the MAC field left as eight zero bytes
InitMac == MacKey("TS3INIT1")

----------------------------------------------------------------------------
\* ts3-crypto

\* The squaring without the reduction modulo n.
SquareModNoReduce(x, n) == x * x

\* One modular squaring of solveRsaPuzzle's loop body.
SquareMod(x, n) == (x * x) % n

RECURSIVE SquareLoop(_, _, _, _)
SquareLoop(xBig, nBig, i, level) ==
  IF i < level THEN SquareLoop(SquareMod(xBig, nBig), nBig, i + 1, level)
  ELSE xBig

\* x and n are the integers the two 64-byte buffers denote; n > 0 (n = 0
\* makes the BigInt remainder throw, see handleInitPacket).
solveRsaPuzzle(x, n, level) == SquareLoop(x, n, 0, level)

\* The number of squarings solveRsaPuzzle performs: its loop runs level times.
PuzzleSquarings(level) == level

\* SHA-256 over (direction byte, type, generation, shared IV), then the
\* packet id XORed into the key: an injective image of these five inputs.
createKeyNonce(pType, clientId, packetId, generationId, sharedIv) ==
  [kind |-> "session", dir |-> IF clientId < 0 THEN 48 ELSE 49,
   type |-> pType, gen |-> generationId, iv |-> sharedIv, pid |-> packetId]

\* eaxDecrypt returns the plaintext exactly when the tag verifies under key.
eaxDecrypt(key, p) == p.mac = key

decryptFake(p) == eaxDecrypt(FAKE_KEY, p)

\* SHA-512(sharedSecret) XOR alpha XOR beta: determined by the three inputs.
computeSharedIv(alpha, beta, sharedSecret) ==
  [alpha |-> alpha, beta |-> beta, secret |-> sharedSecret]

----------------------------------------------------------------------------
\* The client object

InitClient(random0) ==
  [socket |-> Null, closing |-> FALSE, connected |-> FALSE,
   sharedIv |-> NoIv, clientId |-> 0,
   outPacketId |-> [t \in PacketTypes |-> 0],
   inPacketId |-> [t \in PacketTypes |-> 0],
   generationId |-> 0,
   pingInterval |-> FALSE,
   connectTimeout |-> Null,      \* null | armed | dead (cleared or fired handle)
   initStep |-> 0, initRandom0 |-> random0, alpha |-> 0,
   serverName |-> "", currentChannelId |-> 0, ownClientId |-> 0,
   \* Map<number, string>: the entries in insertion order / as a set
   channels |-> <<>>, clientList |-> {},
   fragmentBuffer |-> <<>>,      \* <<>> is null, <<b>> holds the buffer b
   fragmentType |-> -1,
   \* the promise returned by connect() and its once-listeners
   connectResult |-> "none", onceConnected |-> FALSE, onceError |-> FALSE,
   \* pending socket callbacks and asynchronous handlers
   bindPending |-> FALSE, closePending |-> FALSE, ivTasks |-> <<>>,
   \* the transport: FALSE the UDP socket, TRUE the WebSocket to the relay
   \* (socket then stands for this.ws, bindPending for its "open" event)
   useProxy |-> FALSE,
   \* what the last step did
   sent |-> <<>>, handled |-> <<>>, emitted |-> <<>>, squarings |-> 0, threw |-> FALSE,
   returned |-> "none",          \* what moveToChannel returned: "true" | "false"
   \* the payloads of the fragments received since the last unfragmented
   \* packet, per command type (history, not a field of the object)
   fragSeen |-> [t \in {PacketType_Command, PacketType_CommandLow} |-> <<>>],
   \* the id of the last packet of each type handed to the transport, -1
   \* when there is none (history)
   lastOut |-> [t \in PacketTypes |-> -1]]

\* A step starts with nothing sent, handled or emitted.
Begin(c) ==
  [c EXCEPT !.sent = <<>>, !.handled = <<>>, !.emitted = <<>>, !.squarings = 0,
            !.threw = FALSE, !.returned = "none"]

\* The ids of the packets of type t in a sequence of packets, in order.
RECURSIVE IdsOfType(_, _)
IdsOfType(packets, t) ==
  IF packets = <<>> THEN <<>>
  ELSE (IF Head(packets).type = t THEN <<Head(packets).id>> ELSE <<>>)
       \o IdsOfType(Tail(packets), t)

\* A step ends by noting the last id of each type it handed to the transport.
End(c) ==
  [c EXCEPT !.lastOut =
     [t \in PacketTypes |->
        IF IdsOfType(c.sent, t) = <<>> THEN c.lastOut[t]
        ELSE IdsOfType(c.sent, t)[Len(IdsOfType(c.sent, t))]]]

\* resolve / reject settle the promise once.
Settle(c, how) ==
  IF c.connectResult = "pending" THEN [c EXCEPT !.connectResult = how] ELSE c

\* emit(): the event is recorded and the once-listeners of connect() run.
emit(c, ev) ==
  LET c1 == [c EXCEPT !.emitted = Append(@, ev)]
  IN  IF ev[1] = "connected" /\ c1.onceConnected
        THEN Settle([c1 EXCEPT !.onceConnected = FALSE,
                               !.connectTimeout =
                                  IF @ = "armed" THEN "dead" ELSE @],
                    "resolved")
      ELSE IF ev[1] = "error" /\ c1.onceError
        THEN LET c2 == [c1 EXCEPT !.onceError = FALSE]
             IN  IF ~c2.connected THEN Settle(c2, ev[2]) ELSE c2
      ELSE c1

send(c, packet) ==
  IF c.closing THEN c
  ELSE IF c.socket = Null THEN c
  ELSE IF c.useProxy /\ c.bindPending THEN c      \* readyState !== OPEN
  ELSE [c EXCEPT !.sent = Append(@, packet)]

\* The increment without the 16-bit mask.
NextPacketIdNoWrap(id) == id + 1

\* The id the next packet of type pType gets.
NextPacketId(id) == (id + 1) % IdModulus

getNextPacketId(c, pType) ==
  [c EXCEPT !.outPacketId[pType] = NextPacketId(c.outPacketId[pType])]

cleanup(c) ==
  [c EXCEPT !.connected = FALSE,
            !.pingInterval = FALSE,
            !.connectTimeout = Null,
            !.socket = Null,
            !.bindPending = FALSE,
            !.closePending = (c.socket # Null) \/ @]

InitPacket(step, content) ==
  [type |-> PacketType_Init, id |-> INIT_PACKET_ID, clientId |-> 0,
   flags |-> {FLAGS_UNENCRYPTED}, mac |-> InitMac,
   content |-> [step |-> step] @@ content]

sendInit0(c) ==
  send([c EXCEPT !.initStep = 0],
       InitPacket(0, [random0 |-> c.initRandom0]))

sendInit2(c, random1, random0_r) ==
  send([c EXCEPT !.initStep = 2],
       InitPacket(2, [random1 |-> random1, random0_r |-> random0_r]))

sendInit4(c, x, n, level, random2, y) ==
  send([c EXCEPT !.initStep = 4],
       InitPacket(4, [x |-> x, n |-> n, level |-> level, random2 |-> random2,
                      y |-> y, cmd |-> "clientinitiv", alpha |-> c.alpha]))

\* Command, Ack and AckLow packets: the MAC is the EAX tag under the session
\* key when sharedIv is set, under the fake key otherwise.
OutKey(c, pType, packetId) ==
  IF c.sharedIv # NoIv
    THEN createKeyNonce(pType, c.clientId, packetId, c.generationId, c.sharedIv)
    ELSE FAKE_KEY

sendCommand(c, name, params) ==
  LET packetId == c.outPacketId[PacketType_Command]
      c1 == getNextPacketId(c, PacketType_Command)
  IN  send(c1, [type |-> PacketType_Command, id |-> packetId,
                clientId |-> c1.clientId, flags |-> {FLAGS_NEWPROTOCOL},
                mac |-> OutKey(c1, PacketType_Command, packetId),
                content |-> [name |-> name, params |-> params]])

\* An Ack that carries its own id instead of the acknowledged one.
sendAckOwnId(c, packetId, ackType) ==
  LET ackPacketId == c.outPacketId[ackType]
      c1 == getNextPacketId(c, ackType)
  IN  send(c1, [type |-> ackType, id |-> ackPacketId,
                clientId |-> c1.clientId, flags |-> {},
                mac |-> OutKey(c1, ackType, ackPacketId),
                content |-> ackPacketId + 1])

sendAck(c, packetId, ackType) ==
  LET ackPacketId == c.outPacketId[ackType]
      c1 == getNextPacketId(c, ackType)
  IN  send(c1, [type |-> ackType, id |-> ackPacketId,
                clientId |-> c1.clientId, flags |-> {},
                mac |-> OutKey(c1, ackType, ackPacketId),
                content |-> packetId])

\* A Pong sent twice.
sendPongTwice(c, pingId) ==
  LET packetId == c.outPacketId[PacketType_Pong]
      c1 == getNextPacketId(c, PacketType_Pong)
      pong == [type |-> PacketType_Pong, id |-> packetId,
               clientId |-> c1.clientId, flags |-> {},
               mac |-> ZeroMac, content |-> pingId]
  IN  send(send(c1, pong), pong)

sendPong(c, pingId) ==
  LET packetId == c.outPacketId[PacketType_Pong]
      c1 == getNextPacketId(c, PacketType_Pong)
  IN  send(c1, [type |-> PacketType_Pong, id |-> packetId,
                clientId |-> c1.clientId, flags |-> {},
                mac |-> ZeroMac, content |-> pingId])

\* The body of the setInterval callback of startPingLoop.
pingTick(c) ==
  IF ~c.connected THEN c
  ELSE LET packetId == c.outPacketId[PacketType_Ping]
           c1 == getNextPacketId(c, PacketType_Ping)
       IN  send(c1, [type |-> PacketType_Ping, id |-> packetId,
                     clientId |-> c1.clientId, flags |-> {FLAGS_UNENCRYPTED},
                     mac |-> ZeroMac, content |-> <<>>])

startPingLoop(c) == [c EXCEPT !.pingInterval = TRUE]

\* A disconnect() that says goodbye whether or not the session is connected.
disconnectAlwaysGoodbye(c) ==
  LET c1 == [c EXCEPT !.closing = TRUE]
  IN  cleanup(sendCommand(c1, "clientdisconnect",
                          [reasonid |-> "8", reasonmsg |-> "leaving"]))

disconnect(c) ==
  LET c1 == [c EXCEPT !.closing = TRUE]
      c2 == IF c1.connected
              THEN sendCommand(c1, "clientdisconnect",
                               [reasonid |-> "8", reasonmsg |-> "leaving"])
              ELSE c1
  IN  cleanup(c2)


----------------------------------------------------------------------------
\* The command sublanguage

\* The keys the handlers read.  A key that is absent reads as "": every
\* handler treats a missing value and an empty one alike (x || default, !x).
ParamKeys ==
  {"beta", "l", "aclid", "clid", "virtualserver_name",
   "virtualserver_channel_id", "targetmode", "msg", "invokername", "invokerid",
   "cid", "channel_name", "client_nickname", "reasonid"}

NoParams == [k \in ParamKeys |-> ""]

Params(given) == given @@ NoParams

Piece(name, given) == [name |-> name, params |-> Params(given)]

\* parseInt(s) || 0 on the decimal strings the model uses.
parseInt(s) ==
  CASE s = "1" -> 1 [] s = "2" -> 2 [] s = "3" -> 3 [] s = "7" -> 7
    [] s = "42" -> 42 [] OTHER -> 0

\* The parameters of a line: a later key=value token overrides an earlier one.
RECURSIVE LineParams(_)
LineParams(line) ==
  IF line = <<>> THEN NoParams
  ELSE LET rest == LineParams(Tail(line))
       IN  [k \in ParamKeys |-> IF rest[k] # "" THEN rest[k] ELSE Head(line).params[k]]

\* The piece "|", which separates the items of a line.
Bar == [name |-> "|", params |-> NoParams]

\* line.split("|"): the items of a line, in order.
RECURSIVE SplitItems(_)
SplitItems(line) ==
  IF line = <<>> THEN <<<<>>>>
  ELSE LET rest == SplitItems(Tail(line))
       IN  IF Head(line) = Bar THEN <<<<>>>> \o rest
           ELSE <<<<Head(line)>> \o rest[1]>> \o Tail(rest)

\* parseCommand: the name is the first token when it holds no "="; a line
\* without a name parses to null, written here as the name "".  params is
\* the map of the first item.
parseCommand(line) ==
  LET parts == SplitItems(line)
  IN  [name |-> Head(line).name,
       params |-> LineParams(parts[1]),
       items |-> [pi \in 1..Len(parts) |-> LineParams(parts[pi])]]

handleInitIvExpand2(c, cmd) ==
  IF cmd.params["beta"] = ""
    THEN emit(c, <<"error", "initivexpand2 missing beta">>)
    ELSE [c EXCEPT !.ivTasks = Append(@, [stage |-> "derive",
                                          beta |-> cmd.params["beta"],
                                          iv |-> NoIv])]

sendClientInit(c) ==
  LET c1 == sendCommand(c, "clientinit", <<>>)
      c2 == emit(c1, <<"connected">>)
      c3 == sendCommand(c2, "servernotifyregister", [event |-> "textchannel"])
      c4 == sendCommand(c3, "servernotifyregister", [event |-> "textprivate"])
      c5 == sendCommand(c4, "servernotifyregister", [event |-> "server"])
      c6 == sendCommand(c5, "clientlist", <<>>)
  IN  sendCommand(c6, "channellist", <<>>)

handleInitServer(c, cmd) ==
  LET clid == IF cmd.params["aclid"] # "" THEN cmd.params["aclid"]
              ELSE cmd.params["clid"]
      cid == cmd.params["virtualserver_channel_id"]
      c1 == [c EXCEPT
               !.serverName = IF cmd.params["virtualserver_name"] # ""
                                THEN cmd.params["virtualserver_name"]
                                ELSE "TeamSpeak Server",
               !.ownClientId = IF clid # "" THEN parseInt(clid) ELSE @,
               !.currentChannelId = IF cid # "" THEN parseInt(cid) ELSE @,
               !.connected = TRUE]
  IN  sendClientInit(startPingLoop(c1))

\* Map.set on the channel directory: an existing key keeps its place.
SetChannel(channels, cid, name) ==
  IF \E i \in 1..Len(channels) : channels[i].cid = cid
    THEN [i \in 1..Len(channels) |->
            IF channels[i].cid = cid THEN [cid |-> cid, name |-> name] ELSE channels[i]]
    ELSE Append(channels, [cid |-> cid, name |-> name])

RECURSIVE ChannelsAfter(_, _)
ChannelsAfter(channels, items) ==
  IF items = <<>> THEN channels
  ELSE LET cid == parseInt(Head(items)["cid"])
           name == Head(items)["channel_name"]
       IN  ChannelsAfter(IF cid > 0 THEN SetChannel(channels, cid, name) ELSE channels,
                         Tail(items))

handleChannelList(c, cmd) ==
  [c EXCEPT !.channels = ChannelsAfter(@, cmd.items)]

handleClientEnterView(c, cmd) ==
  LET clid == parseInt(cmd.params["clid"])
      name == cmd.params["client_nickname"]
  IN  IF clid > 0
        THEN [c EXCEPT !.clientList =
                {e \in @ : e.clid # clid} \cup {[clid |-> clid, name |-> name]}]
        ELSE c

handleClientLeftView(c, cmd) ==
  LET clid == parseInt(cmd.params["clid"])
  IN  [c EXCEPT !.clientList = {e \in @ : e.clid # clid}]

handleTextMessage(c, cmd) ==
  emit(c, <<"textmessage", parseInt(cmd.params["targetmode"]), cmd.params["msg"],
            cmd.params["invokername"], cmd.params["invokerid"]>>)

handleParsedCommand(c, cmd) ==
  CASE cmd.name = "initivexpand2" -> handleInitIvExpand2(c, cmd)
    [] cmd.name = "initserver" -> handleInitServer(c, cmd)
    [] cmd.name = "channellist" -> handleChannelList(c, cmd)
    [] cmd.name = "notifycliententerview" -> handleClientEnterView(c, cmd)
    [] cmd.name = "notifyclientleftview" -> handleClientLeftView(c, cmd)
    [] cmd.name = "notifytextmessage" -> handleTextMessage(c, cmd)
    [] OTHER -> c

\* data holds one line; an empty buffer holds none.
handleCommandData(c, data, packetId, pType) ==
  LET c1 == [c EXCEPT !.handled = Append(@, data)]
  IN  IF data = <<>> THEN c1
      ELSE IF parseCommand(data).name = "" THEN c1
      ELSE handleParsedCommand(c1, parseCommand(data))

handleInitPacket(c, p) ==
  LET content == p.content
  IN  IF content.step = 1
        THEN sendInit2(c, content.random1, content.random0_r)
      ELSE IF content.step = 3
        THEN IF content.n = 0 /\ content.level > 0
               THEN [c EXCEPT !.threw = TRUE]   \* BigInt: division by zero
               ELSE sendInit4([c EXCEPT !.squarings = PuzzleSquarings(content.level)],
                              content.x, content.n, content.level, content.random2,
                              solveRsaPuzzle(content.x, content.n, content.level))
      ELSE c

\* A Command branch that takes the payload whatever the tag.
DecryptsNoVerify(c, p) == TRUE

\* The three decryption attempts of the Command branch, in the code's order.
Decrypts(c, p) ==
  IF FLAGS_UNENCRYPTED \in p.flags THEN TRUE
  ELSE \/ decryptFake(p)
       \/ /\ c.sharedIv # NoIv
          /\ eaxDecrypt(createKeyNonce(p.type, -1, p.id, c.generationId, c.sharedIv), p)
       \/ /\ c.sharedIv # NoIv
          /\ decryptFake(p)

handleCommandPacket(c, p) ==
  IF ~Decrypts(c, p) THEN c
  ELSE IF FLAGS_COMPRESSED \in p.flags THEN c
  ELSE LET c1 ==
             IF FLAGS_FRAGMENTED \in p.flags
               THEN IF c.fragmentBuffer = <<>>
                      THEN [c EXCEPT !.fragmentBuffer = <<p.content>>,
                                     !.fragmentType = p.type]
                      ELSE handleCommandData(
                             [c EXCEPT !.fragmentBuffer = <<>>, !.fragmentType = -1],
                             c.fragmentBuffer[1] \o p.content, p.id, p.type)
               ELSE handleCommandData(c, p.content, p.id, p.type)
       IN  sendAck(c1, p.id,
                   IF p.type = PacketType_CommandLow THEN PacketType_AckLow
                   ELSE PacketType_Ack)

handlePacket(c, p) ==
  CASE p.type = PacketType_Init -> handleInitPacket(c, p)
    [] p.type = PacketType_Ping -> sendPong(c, p.id)
    [] p.type = PacketType_Pong -> c
    [] p.type \in {PacketType_Ack, PacketType_AckLow} -> c   \* ackCallbacks is never filled
    [] p.type \in {PacketType_Command, PacketType_CommandLow} -> handleCommandPacket(c, p)
    [] OTHER -> c


----------------------------------------------------------------------------
\* What the network can deliver

CmdTypes == {PacketType_Command, PacketType_CommandLow}

IvxPiece == Piece("initivexpand2", [beta |-> "b", l |-> "lic"])
IvxNoBeta == Piece("initivexpand2", [l |-> "lic"])
InitServerPiece ==
  Piece("initserver", [aclid |-> "42", virtualserver_name |-> "srv",
                       virtualserver_channel_id |-> "1"])
TextHead == Piece("notifytextmessage", [targetmode |-> "2"])
TextMid == Piece("", [msg |-> "hi"])
TextTail == Piece("", [invokername |-> "bob"])
TextLine == <<TextHead, TextMid, TextTail>>
OtherPiece == Piece("notifyclientmoved", [clid |-> "7"])

\* The shared IVs a session can derive.
SessionIvs == {computeSharedIv(0, "b", s) : s \in 1..NumSecrets}

\* The tags a server or an attacker can put on a packet of this type and id.
Macs(type, id) ==
  {FAKE_KEY, BadMac} \cup {createKeyNonce(type, -1, id, 0, iv) : iv \in SessionIvs}

S2CPacket(type, id, flags, mac, content) ==
  [type |-> type, id |-> id, flags |-> flags, mac |-> mac, content |-> content]

Init1Packet(r) ==
  S2CPacket(PacketType_Init, INIT_PACKET_ID, {FLAGS_UNENCRYPTED}, InitMac,
            [step |-> 1, random1 |-> 5, random0_r |-> r])

Init3Packet(x, n, level) ==
  S2CPacket(PacketType_Init, INIT_PACKET_ID, {FLAGS_UNENCRYPTED}, InitMac,
            [step |-> 3, x |-> x, n |-> n, level |-> level, random2 |-> 9])

InitPackets ==
  {Init1Packet(r) : r \in 0..MaxRandom}
  \cup {Init3Packet(3, n, level) : n \in {0, 7}, level \in {1, MaxLevel}}
  \cup {S2CPacket(PacketType_Init, INIT_PACKET_ID, {FLAGS_UNENCRYPTED}, InitMac,
                  [step |-> 127])}

OtherPackets ==
  {S2CPacket(PacketType_Ping, id, {FLAGS_UNENCRYPTED}, ZeroMac, <<>>) : id \in 0..MaxPid}
  \cup {S2CPacket(PacketType_Pong, 0, {FLAGS_UNENCRYPTED}, ZeroMac, 0),
        S2CPacket(PacketType_Ack, 0, {}, FAKE_KEY, 0)}

\* Command packets of the handshake: encrypted under any tag, or flagged
\* UNENCRYPTED (the MAC field is then not looked at).
HandshakeCommands ==
  UNION {{S2CPacket(PacketType_Command, id, {}, mac, content)
            : mac \in Macs(PacketType_Command, id)}
         \cup {S2CPacket(PacketType_Command, id, {FLAGS_UNENCRYPTED}, BadMac, content)}
           : content \in {<<IvxPiece>>, <<IvxNoBeta>>, <<InitServerPiece>>, TextLine},
             id \in 0..MaxPid}

HandshakePackets == InitPackets \cup HandshakeCommands \cup OtherPackets

\* Command packets of an established session: whole lines and fragments of
\* both command types, compressed packets, forged tags.
SessionCommands ==
  UNION {{S2CPacket(type, id, {}, mac, content)
            : mac \in Macs(type, id), content \in {TextLine, <<TextTail>>, <<OtherPiece>>}}
         \cup {S2CPacket(type, id, {FLAGS_FRAGMENTED}, mac, content)
            : mac \in Macs(type, id) \ {FAKE_KEY}, content \in {<<TextHead>>, <<TextMid>>}}
         \cup {S2CPacket(type, id, {FLAGS_COMPRESSED}, createKeyNonce(type, -1, id, 0, iv),
                         <<OtherPiece>>) : iv \in SessionIvs}
           : type \in CmdTypes, id \in 0..MaxPid}

SessionPackets == SessionCommands \cup OtherPackets

\* The server sends at most MaxFrags fragments in a row, and one
\* initivexpand2 at a time.
Feedable(c, p) ==
  /\ (p.type \in CmdTypes /\ p.content = <<IvxPiece>>) => Len(c.ivTasks) = 0
  /\ (p.type \in CmdTypes /\ FLAGS_FRAGMENTED \in p.flags)
       => Len(c.fragSeen[PacketType_Command])
            + Len(c.fragSeen[PacketType_CommandLow]) < MaxFrags

\* The history of fragments: the payloads of the packets of p's type that
\* were accepted with the FRAGMENTED flag since the last one without it.
TrackFragments(before, after, p) ==
  IF p.type \in CmdTypes /\ Decrypts(before, p) /\ FLAGS_COMPRESSED \notin p.flags
    THEN [after EXCEPT !.fragSeen[p.type] =
            IF FLAGS_FRAGMENTED \in p.flags THEN Append(@, p.content) ELSE <<>>]
    ELSE after

NoPacket == S2CPacket(-1, 0, {}, BadMac, <<>>)

Op(name, p) == [op |-> name, pkt |-> p]

----------------------------------------------------------------------------
\* The operations, as functions of the object

\* connect(), direct UDP transport: connectDirect creates the socket and
\* asks for the bind.
connect(c) ==
  [c EXCEPT !.closing = FALSE, !.connectTimeout = "armed",
            !.onceConnected = TRUE, !.onceError = TRUE,
            !.connectResult = "pending",
            !.socket = "open", !.bindPending = TRUE]

\* The callback of socket.bind().
onBound(c) == sendInit0([c EXCEPT !.bindPending = FALSE])

\* The socket's "error" event.
onSocketError(c) ==
  LET c1 == emit(c, <<"error", "socket error">>)
  IN  IF ~c1.connected THEN Settle(c1, "socket error") ELSE c1

\* The "close" event.  The UDP socket's follows socket.close(); the
\* WebSocket's follows ws.close() or the relay closing the stream, and its
\* handler does nothing once disconnect() has set closing.
onSocketClose(c) ==
  IF c.useProxy
    THEN IF ~c.closing
           THEN emit([cleanup(c) EXCEPT !.closePending = FALSE],
                     <<"disconnected", "proxy connection closed">>)
           ELSE [c EXCEPT !.closePending = FALSE]
    ELSE emit(cleanup([c EXCEPT !.closePending = FALSE]),
              <<"disconnected", "socket closed">>)

\* A timer callback that rejects without calling disconnect().
onConnectTimeoutNoTeardown(c) ==
  LET c1 == [c EXCEPT !.connectTimeout = "dead"]
  IN  IF ~c1.connected THEN Settle(c1, "Connection timeout (15s)") ELSE c1

\* The callback of the 15 s timer set by connect().
onConnectTimeout(c) ==
  LET c1 == [c EXCEPT !.connectTimeout = "dead"]
  IN  IF ~c1.connected
        THEN Settle(disconnect(c1), "Connection timeout (15s)")
        ELSE c1

\* handleInitIvExpand2Async up to the assignment of sharedIv: the awaits of
\* the license key, the ephemeral key and the DH are over.
ivDerive(c, i, secret) ==
  LET iv == computeSharedIv(c.alpha, c.ivTasks[i].beta, secret)
  IN  [c EXCEPT !.sharedIv = iv, !.ivTasks[i].stage = "sign", !.ivTasks[i].iv = iv]

RemoveAt(seq, i) == SubSeq(seq, 1, i - 1) \o SubSeq(seq, i + 1, Len(seq))

\* handleInitIvExpand2Async after the await of the signature: clientek.
ivSendEk(c, i) ==
  sendCommand([c EXCEPT !.ivTasks = RemoveAt(@, i)], "clientek",
              [ek |-> c.ivTasks[i].iv.secret, proof |-> c.ivTasks[i].iv])

\* String(n) on the numbers the model uses.
String(n) ==
  CASE n = 0 -> "0" [] n = 1 -> "1" [] n = 2 -> "2" [] n = 3 -> "3"
    [] n = 7 -> "7" [] n = 42 -> "42"

\* String.prototype.toLowerCase on the channel names the model uses.
toLowerCase(name) ==
  CASE name \in {"Lobby", "LOBBY"} -> "lobby"
    [] name \in {"Music", "MUSIC"} -> "music"
    [] OTHER -> name

\* The first entry of the directory whose name equals channelName ignoring
\* case, 0 when there is none.
RECURSIVE FindChannel(_, _, _)
FindChannel(channels, channelName, i) ==
  IF i > Len(channels) THEN 0
  ELSE IF toLowerCase(channels[i].name) = toLowerCase(channelName) THEN i
  ELSE FindChannel(channels, channelName, i + 1)

moveToChannel(c, channelName) ==
  LET i == FindChannel(c.channels, channelName, 1)
  IN  IF i = 0 THEN [c EXCEPT !.returned = "false"]
      ELSE [sendCommand(c, "clientmove",
                        [clid |-> String(c.ownClientId),
                         cid |-> String(c.channels[i].cid)])
              EXCEPT !.currentChannelId = c.channels[i].cid, !.returned = "true"]

sendTextMessage(c, targetmode, target, msg) ==
  sendCommand(c, "sendtextmessage",
              [targetmode |-> targetmode, target |-> target, msg |-> msg])

----------------------------------------------------------------------------
\* The wire

\* net.on tells whether the socket's peer is the server of ServerStep: what
\* the client hands to the transport then queues up for it in c2s, in order,
\* and its answers queue up for the client in s2c.  Otherwise the peer is
\* the network at large, which delivers whatever it likes.
\* net.timed tells whether the silence of the server is being measured:
\* idle then counts the ticks of the 1 s ping interval since the last packet
\* arrived.
NoNet ==
  [on |-> FALSE, c2s |-> <<>>, s2c |-> <<>>, got |-> {}, alpha |-> -1, ek |-> -1,
   puzzle |-> <<0, 1, 0>>, timed |-> FALSE, idle |-> 0]

Wire ==
  net' = IF net.on
           THEN [net EXCEPT !.c2s = @ \o client'.sent,
                            !.s2c = IF lastOp'.op = "recv" THEN Tail(@) ELSE @]
         ELSE IF net.timed
           THEN [net EXCEPT !.idle = IF lastOp'.op = "recv" THEN 0
                                     ELSE IF lastOp'.op = "pingTimer" THEN @ + 1
                                     ELSE @]
         ELSE net

----------------------------------------------------------------------------
\* The actions

Connect ==
  /\ client.connectResult = "none"
  /\ client' = End(connect(Begin(client)))
  /\ lastOp' = Op("connect", NoPacket)
  /\ UNCHANGED <<pz, tx, proxy, player, panel>>
  /\ Wire

SocketBound ==
  /\ client.bindPending
  /\ client' = End(onBound(Begin(client)))
  /\ lastOp' = Op("bound", NoPacket)
  /\ UNCHANGED <<pz, tx, proxy, player, panel>>
  /\ Wire

SocketError ==
  /\ client.socket # Null
  /\ client' = End(onSocketError(Begin(client)))
  /\ lastOp' = Op("socketError", NoPacket)
  /\ UNCHANGED <<pz, tx, proxy, player, panel>>
  /\ Wire

SocketClose ==
  /\ client.closePending \/ (client.useProxy /\ client.socket # Null)
  /\ client' = End(onSocketClose(Begin(client)))
  /\ lastOp' = Op("socketClose", NoPacket)
  /\ UNCHANGED <<pz, tx, proxy, player, panel>>
  /\ Wire

\* The "message" event: handlePacket, inside try/catch.
\* A WebSocket on which close() was called still delivers the messages that
\* arrive before its "close" event; a closed UDP socket delivers none.
Receive(p) ==
  /\ client.socket # Null \/ (client.useProxy /\ client.closePending)
  /\ ~client.bindPending
  /\ Feedable(client, p)
  /\ client' = End(TrackFragments(client, handlePacket(Begin(client), p), p))
  /\ lastOp' = Op("recv", p)
  /\ UNCHANGED <<pz, tx, proxy, player, panel>>
  /\ Wire

ConnectTimerFire ==
  /\ client.connectTimeout = "armed"
  /\ client' = End(onConnectTimeout(Begin(client)))
  /\ lastOp' = Op("connectTimer", NoPacket)
  /\ UNCHANGED <<pz, tx, proxy, player, panel>>
  /\ Wire

\* The 1 s interval set by startPingLoop.
PingTimerFire ==
  /\ client.pingInterval
  /\ client' = End(pingTick(Begin(client)))
  /\ lastOp' = Op("pingTimer", NoPacket)
  /\ UNCHANGED <<pz, tx, proxy, player, panel>>
  /\ Wire

IvDerive(i, secret) ==
  /\ i \in 1..Len(client.ivTasks)
  /\ client.ivTasks[i].stage = "derive"
  /\ client' = End(ivDerive(Begin(client), i, secret))
  /\ lastOp' = Op("ivDerive", NoPacket)
  /\ UNCHANGED <<pz, tx, proxy, player, panel>>
  /\ Wire

IvSendEk(i) ==
  /\ i \in 1..Len(client.ivTasks)
  /\ client.ivTasks[i].stage = "sign"
  /\ client' = End(ivSendEk(Begin(client), i))
  /\ lastOp' = Op("ivSendEk", NoPacket)
  /\ UNCHANGED <<pz, tx, proxy, player, panel>>
  /\ Wire

\* disconnect() called by the application: "disconnectAgain" when closing
\* is set already, i.e. disconnect() has run with no connect() since.
Disconnect ==
  /\ client.connectResult # "none"
  /\ client' = End(disconnect(Begin(client)))
  /\ lastOp' = Op(IF client.closing THEN "disconnectAgain" ELSE "disconnect", NoPacket)
  /\ UNCHANGED <<pz, tx, proxy, player, panel>>
  /\ Wire

\* moveToChannel(channelName) called by the application; lastOp keeps the
\* argument in the place of the packet's content.
MoveToChannel(channelName) ==
  /\ client' = End(moveToChannel(Begin(client), channelName))
  /\ lastOp' = Op("moveToChannel", [NoPacket EXCEPT !.content = <<channelName>>])
  /\ UNCHANGED <<pz, tx, proxy, player, panel>>
  /\ Wire

\* sendTextMessage() called by the application.
SendText ==
  /\ client.connected
  /\ client' = End(sendTextMessage(Begin(client), "2", "1", "yo"))
  /\ lastOp' = Op("sendText", NoPacket)
  /\ UNCHANGED <<pz, tx, proxy, player, panel>>
  /\ Wire

PzIdle == [x |-> 0, n |-> 1, level |-> 0, y |-> -1, pc |-> "idle"]

TxIdle == [input |-> <<>>, line |-> <<>>, output |-> <<>>, pc |-> "idle"]

\* The relay before any request: one TCP socket, and the closure variables
\* of the "upgrade" handler once it has run on that socket.
ProxyIdle ==
  [request |-> "none",       \* none | unauthorized | badRequest | accepted | threw
   wrote |-> <<>>,           \* what was written on the TCP socket, in order
   destroyed |-> FALSE,      \* socket.destroy() was called
   closePending |-> FALSE,   \* the socket's "close" event is due
   crashed |-> FALSE,        \* an exception left a handler: the process is gone
   udp |-> "none",           \* udpSocket: none | open | closed
   udpCloses |-> 0,          \* calls of udpSocket.close()
   clients |-> {},           \* the keys of the clients table
   wsBuffer |-> <<>>,
   fragmentBuffer |-> <<>>,  \* <<>> is null, <<b>> holds the buffer b
   cleaned |-> FALSE,
   datagrams |-> <<>>,       \* the buffers handed to udpSocket.send, in order
   \* history: the frames the peer has written, its bytes still under way,
   \* the number of bytes delivered, and the number of datagrams sent when
   \* the last UDP error was reported (-1: none was)
   frames |-> <<>>, inFlight |-> <<>>, delivered |-> 0, udpErrorAt |-> -1,
   \* history: the upgrade request the handler was called with, and the
   \* number of Close frames, "close" events and "error" events handled
   req |-> [token |-> Null, host |-> Null, parses |-> TRUE], teardowns |-> 0,
   \* history: the datagrams that arrived on the UDP socket, with their senders
   inbound |-> <<>>]

\* The QueueManager after construction.
PlayerIdle ==
  [queue |-> <<>>,
   currentSong |-> <<>>,     \* <<>> is null, <<song>> holds the song
   isPlaying |-> FALSE, volume |-> 80, progress |-> 0, duration |-> 0,
   progressInterval |-> FALSE,   \* the handle is not null
   intervals |-> 0,          \* the setInterval timers that are not cleared
   threw |-> FALSE,          \* an exception left the last call
   crashed |-> FALSE,        \* it left a timer callback: the process is gone
   \* history: the calls of the timer callback so far
   ticks |-> 0]

\* The WebSocketClient of the panel after construction.  A socket or a
\* timer is known by its place in sockets or timers; 0 is null.
PanelIdle ==
  [ws |-> 0,
   reconnectTimer |-> 0,
   isConnecting |-> FALSE,
   sockets |-> <<>>,         \* connecting | open | failed | closing | closed
   timers |-> <<>>,          \* armed | fired | cleared
   \* history: the last call or event, and whether the application has
   \* called disconnect() and not connect() since
   op |-> "new", disconnected |-> FALSE]

\* The counters stay below base + the caps: the server and the application
\* stop once the client has handed out that many ids.
Capped(base) ==
  /\ client.outPacketId[PacketType_Ack] < base[PacketType_Ack] + MaxAck
  /\ client.outPacketId[PacketType_AckLow] < base[PacketType_AckLow] + MaxOut
  /\ client.outPacketId[PacketType_Pong] < base[PacketType_Pong] + MaxOut
  /\ client.outPacketId[PacketType_Ping] < base[PacketType_Ping] + MaxOut
  /\ client.outPacketId[PacketType_Command] < base[PacketType_Command] + MaxCmd

----------------------------------------------------------------------------
\* Spec: the life of one engine from its construction, with a network that
\* delivers any handshake packet at any time.

Init ==
  /\ client \in {InitClient(r) : r \in 0..MaxRandom}
  /\ lastOp = Op("new", NoPacket)
  /\ pz = PzIdle
  /\ proxy = ProxyIdle
  /\ player = PlayerIdle
  /\ panel = PanelIdle
  /\ tx = TxIdle
  /\ net = NoNet

Next ==
  \/ Connect
  \/ SocketBound
  \/ SocketError
  \/ SocketClose
  \/ \E p \in HandshakePackets : Capped(InitClient(0).outPacketId) /\ Receive(p)
  \/ ConnectTimerFire
  \/ Capped(InitClient(0).outPacketId) /\ PingTimerFire
  \/ \E s \in 1..NumSecrets : IvDerive(1, s)
  \/ IvSendEk(1)
  \/ Disconnect
  \/ Capped(InitClient(0).outPacketId) /\ SendText

Spec == Init /\ [][Next]_vars

----------------------------------------------------------------------------
\* SpecSession: an established session.  Its first state is the one a
\* handshake of Spec ends in: connect, bind, Init1, Init3, initivexpand2 under
\* the fake key, the two asynchronous steps, initserver under the session key.

After(c, p) == End(TrackFragments(c, handlePacket(Begin(c), p), p))

Established ==
  LET c1 == End(connect(Begin(InitClient(0))))
      c2 == End(onBound(Begin(c1)))
      c3 == After(c2, Init1Packet(0))
      c4 == After(c3, Init3Packet(3, 7, 1))
      c5 == After(c4, S2CPacket(PacketType_Command, 0, {}, FAKE_KEY, <<IvxPiece>>))
      c6 == End(ivDerive(Begin(c5), 1, 1))
      c7 == End(ivSendEk(Begin(c6), 1))
  IN  After(c7, S2CPacket(PacketType_Command, 1, {},
                          createKeyNonce(PacketType_Command, -1, 1, 0, c7.sharedIv),
                          <<InitServerPiece>>))

InitSession ==
  /\ client = Established
  /\ lastOp = Op("established", NoPacket)
  /\ pz = PzIdle
  /\ proxy = ProxyIdle
  /\ player = PlayerIdle
  /\ panel = PanelIdle
  /\ tx = TxIdle
  /\ net = NoNet

NextSession ==
  \/ \E p \in SessionPackets : Capped(Established.outPacketId) /\ Receive(p)
  \/ Capped(Established.outPacketId) /\ PingTimerFire
  \/ Capped(Established.outPacketId) /\ SendText
  \/ SocketError
  \/ SocketClose
  \/ Disconnect

SpecSession == InitSession /\ [][NextSession]_vars

----------------------------------------------------------------------------
\* SpecIds: an established session that has been up for long, each outgoing
\* counter two short of the 16-bit wrap (the state 65534 sends of each type
\* lead to; no statement of the program writes generationId).

IdsPackets ==
  {S2CPacket(type, 0, {}, createKeyNonce(type, -1, 0, 0, Established.sharedIv),
             <<OtherPiece>>) : type \in CmdTypes}
  \cup {S2CPacket(PacketType_Ping, 0, {FLAGS_UNENCRYPTED}, ZeroMac, <<>>)}

SendTypes ==
  {PacketType_Command, PacketType_Ping, PacketType_Pong, PacketType_Ack,
   PacketType_AckLow}

LongRunning ==
  [Established EXCEPT
     !.sent = <<>>, !.handled = <<>>, !.emitted = <<>>,
     !.outPacketId = [t \in PacketTypes |->
                        IF t \in SendTypes THEN IdModulus - 2 ELSE @[t]],
     !.lastOut = [t \in PacketTypes |->
                    IF t \in SendTypes THEN IdModulus - 3 ELSE @[t]]]

\* The sources stop once every counter has gone through the wrap.
NearWrap ==
  \A t \in SendTypes :
    client.outPacketId[t] >= IdModulus - 2 \/ client.outPacketId[t] < MaxOut

InitIds ==
  /\ client = LongRunning
  /\ lastOp = Op("longRunning", NoPacket)
  /\ pz = PzIdle
  /\ proxy = ProxyIdle
  /\ player = PlayerIdle
  /\ panel = PanelIdle
  /\ tx = TxIdle
  /\ net = NoNet

NextIds ==
  \/ \E p \in IdsPackets : NearWrap /\ Receive(p)
  \/ NearWrap /\ PingTimerFire
  \/ NearWrap /\ SendText

SpecIds == InitIds /\ [][NextIds]_vars

----------------------------------------------------------------------------
\* SpecRelay: an established session over either transport, the UDP socket
\* or the WebSocket to the relay, with the application disconnecting at any
\* time and, over the relay, packets still arriving after that.

RelayKey(type, id) == createKeyNonce(type, -1, id, 0, Established.sharedIv)

RelayPackets ==
  UNION {{S2CPacket(type, id, {}, RelayKey(type, id), content)
            : content \in {TextLine, <<OtherPiece>>}}
         \cup {S2CPacket(type, id, {FLAGS_FRAGMENTED}, RelayKey(type, id), <<TextHead>>),
               S2CPacket(type, id, {FLAGS_COMPRESSED}, RelayKey(type, id), <<OtherPiece>>),
               S2CPacket(type, id, {}, BadMac, TextLine)}
           : type \in CmdTypes, id \in 0..MaxPid}
  \cup {S2CPacket(PacketType_Command, 0, {}, RelayKey(PacketType_Command, 0), content)
          : content \in {<<InitServerPiece>>, <<IvxPiece>>}}
  \cup OtherPackets

InitRelay ==
  /\ client \in {[Established EXCEPT !.useProxy = b] : b \in BOOLEAN}
  /\ lastOp = Op("established", NoPacket)
  /\ pz = PzIdle
  /\ proxy = ProxyIdle
  /\ player = PlayerIdle
  /\ panel = PanelIdle
  /\ tx = TxIdle
  /\ net = NoNet

NextRelay ==
  \/ \E p \in RelayPackets : Capped(Established.outPacketId) /\ Receive(p)
  \/ Capped(Established.outPacketId) /\ PingTimerFire
  \/ \E s \in 1..NumSecrets : IvDerive(1, s)
  \/ Capped(Established.outPacketId) /\ IvSendEk(1)
  \/ SocketClose
  \/ Disconnect

SpecRelay == InitRelay /\ [][NextRelay]_vars

----------------------------------------------------------------------------
\* SpecSilent: an established session whose server falls silent.  The ping
\* interval ticks once a second; the server sends a Ping now and then, or
\* nothing at all.

\* The session timeout, in seconds.
IdleTimeout == 30

InitSilent ==
  /\ client = Established
  /\ lastOp = Op("established", NoPacket)
  /\ pz = PzIdle
  /\ proxy = ProxyIdle
  /\ player = PlayerIdle
  /\ panel = PanelIdle
  /\ tx = TxIdle
  /\ net = [NoNet EXCEPT !.timed = TRUE]

NextSilent ==
  \/ net.idle <= IdleTimeout /\ PingTimerFire
  \/ /\ client.outPacketId[PacketType_Pong] < MaxOut
     /\ Receive(S2CPacket(PacketType_Ping, 0, {FLAGS_UNENCRYPTED}, ZeroMac, <<>>))
  \/ /\ client.outPacketId[PacketType_Command] <
          Established.outPacketId[PacketType_Command] + MaxOut
     /\ SendText

SpecSilent == InitSilent /\ [][NextSilent]_vars

----------------------------------------------------------------------------
\* SpecDirectory: an established session in which the server announces
\* channels and clients, and the application moves the client about.

DirectoryLines ==
  {<<Piece("channellist", [cid |-> "1", channel_name |-> "Lobby"])>>,
   <<Piece("channellist", [cid |-> "2", channel_name |-> "Music"]), Bar,
     Piece("", [cid |-> "3", channel_name |-> "LOBBY"])>>,
   <<Piece("channellist", [channel_name |-> "Attic"])>>,
   <<Piece("notifycliententerview", [clid |-> "7", client_nickname |-> "bob"])>>,
   <<Piece("notifyclientleftview", [clid |-> "7", reasonid |-> "8"])>>,
   <<Piece("notifyclientleftview", [clid |-> "42", reasonid |-> "5"])>>,
   \* the reply to clientlist: "clid=1 client_nickname=ann|clid=2 ..."
   <<Piece("", [clid |-> "1", client_nickname |-> "ann"]), Bar,
     Piece("", [clid |-> "2", client_nickname |-> "bot"])>>}

DirectoryPackets ==
  {S2CPacket(PacketType_Command, 0, {}, RelayKey(PacketType_Command, 0), line)
     : line \in DirectoryLines}

ChannelNames == {"lobby", "MUSIC", "Attic"}

InitDirectory ==
  /\ client = Established
  /\ lastOp = Op("established", NoPacket)
  /\ pz = PzIdle
  /\ proxy = ProxyIdle
  /\ player = PlayerIdle
  /\ panel = PanelIdle
  /\ tx = TxIdle
  /\ net = NoNet

NextDirectory ==
  \/ \E p \in DirectoryPackets : Capped(Established.outPacketId) /\ Receive(p)
  \/ \E name \in ChannelNames : Capped(Established.outPacketId) /\ MoveToChannel(name)
  \/ Disconnect
  \/ SocketClose

SpecDirectory == InitDirectory /\ [][NextDirectory]_vars

----------------------------------------------------------------------------
\* Text: a string is the sequence of its characters.

\* String.prototype.replace with a global pattern that matches the literal
\* pat: the matches are found from left to right and do not overlap.
RECURSIVE ReplaceAll(_, _, _)
ReplaceAll(s, pat, by) ==
  IF Len(s) < Len(pat) THEN s
  ELSE IF SubSeq(s, 1, Len(pat)) = pat
    THEN by \o ReplaceAll(SubSeq(s, Len(pat) + 1, Len(s)), pat, by)
    ELSE <<Head(s)>> \o ReplaceAll(Tail(s), pat, by)

unescapeTS3(s) ==
  LET s1 == ReplaceAll(s, <<"\\", "s">>, <<" ">>)
      s2 == ReplaceAll(s1, <<"\\", "p">>, <<"|">>)
      s3 == ReplaceAll(s2, <<"\\", "n">>, <<"\n">>)
      s4 == ReplaceAll(s3, <<"\\", "r">>, <<"\r">>)
      s5 == ReplaceAll(s4, <<"\\", "t">>, <<"\t">>)
      s6 == ReplaceAll(s5, <<"\\", "/">>, <<"/">>)
  IN  ReplaceAll(s6, <<"\\", "\\">>, <<"\\">>)

escapeTS3(s) ==
  LET s1 == ReplaceAll(s, <<"\\">>, <<"\\", "\\">>)
      s2 == ReplaceAll(s1, <<" ">>, <<"\\", "s">>)
      s3 == ReplaceAll(s2, <<"|">>, <<"\\", "p">>)
      s4 == ReplaceAll(s3, <<"\n">>, <<"\\", "n">>)
      s5 == ReplaceAll(s4, <<"\r">>, <<"\\", "r">>)
      s6 == ReplaceAll(s5, <<"\t">>, <<"\\", "t">>)
  IN  ReplaceAll(s6, <<"/">>, <<"\\", "/">>)

\* All strings over alphabet of at most n characters.
RECURSIVE StringsUpTo(_, _)
StringsUpTo(alphabet, n) ==
  IF n = 0 THEN {<<>>}
  ELSE LET shorter == StringsUpTo(alphabet, n - 1)
       IN  shorter \cup {Append(s, ch) : s \in shorter, ch \in alphabet}

----------------------------------------------------------------------------
\* SpecEscape: escapeTS3, then unescapeTS3, applied to every string within
\* the bound.

MaxStr == 3

EscapeAlphabet == {"\\", " ", "|", "\n", "\r", "\t", "/", "s", "p", "n", "r", "t"}

Escape ==
  /\ tx.pc = "start"
  /\ tx' = [tx EXCEPT !.line = escapeTS3(tx.input), !.pc = "escaped"]
  /\ UNCHANGED <<client, lastOp, pz, net, proxy, player, panel>>

Unescape ==
  /\ tx.pc = "escaped"
  /\ tx' = [tx EXCEPT !.output = unescapeTS3(tx.line), !.pc = "unescaped"]
  /\ UNCHANGED <<client, lastOp, pz, net, proxy, player, panel>>

InitEscape ==
  /\ client = InitClient(0)
  /\ lastOp = Op("new", NoPacket)
  /\ pz = PzIdle
  /\ proxy = ProxyIdle
  /\ player = PlayerIdle
  /\ panel = PanelIdle
  /\ net = NoNet
  /\ tx \in {[TxIdle EXCEPT !.input = s, !.pc = "start"]
               : s \in StringsUpTo(EscapeAlphabet, MaxStr)}

NextEscape == Escape \/ Unescape

SpecEscape == InitEscape /\ [][NextEscape]_vars

----------------------------------------------------------------------------
\* SpecParse: the line sendCommand builds for a command, then parseCommand
\* applied to that line, character by character.

\* What \s matches and trim() strips, among the characters of the model.
Whitespace == {" ", "\n", "\r", "\t"}

\* String.prototype.split on a single character out of seps.
RECURSIVE Split(_, _)
Split(s, seps) ==
  IF s = <<>> THEN <<<<>>>>
  ELSE LET rest == Split(Tail(s), seps)
       IN  IF Head(s) \in seps THEN <<<<>>>> \o rest
           ELSE <<<<Head(s)>> \o rest[1]>> \o Tail(rest)

RECURSIVE trimStart(_)
trimStart(s) ==
  IF s # <<>> /\ Head(s) \in Whitespace THEN trimStart(Tail(s)) ELSE s

RECURSIVE trimEnd(_)
trimEnd(s) ==
  IF s # <<>> /\ s[Len(s)] \in Whitespace THEN trimEnd(SubSeq(s, 1, Len(s) - 1)) ELSE s

trim(s) == trimEnd(trimStart(s))

\* split(/\s+/) of a trimmed string: the empty string gives one empty token.
SplitWhitespace(s) ==
  IF s = <<>> THEN <<<<>>>>
  ELSE SelectSeq(Split(s, Whitespace), LAMBDA token : token # <<>>)

\* indexOf(ch), counted from 1; 0 when ch does not occur.
indexOf(token, ch) ==
  IF \E i \in 1..Len(token) : token[i] = ch
    THEN CHOOSE i \in 1..Len(token) :
           token[i] = ch /\ \A j \in 1..(i - 1) : token[j] # ch
    ELSE 0

\* Map.set on a map kept as the sequence of its entries <<key, value>>.
MapSet(map, key, val) ==
  IF \E i \in 1..Len(map) : map[i][1] = key
    THEN [i \in 1..Len(map) |-> IF map[i][1] = key THEN <<key, val>> ELSE map[i]]
    ELSE Append(map, <<key, val>>)

\* The map of the tokens of one item, the name left out.
RECURSIVE TokenParams(_, _)
TokenParams(tokens, map) ==
  IF tokens = <<>> THEN map
  ELSE LET token == Head(tokens)
           eqIdx == indexOf(token, "=")
       IN  TokenParams(Tail(tokens),
             IF eqIdx = 0 THEN MapSet(map, token, <<>>)
             ELSE MapSet(map, SubSeq(token, 1, eqIdx - 1),
                         unescapeTS3(SubSeq(token, eqIdx + 1, Len(token)))))

\* parseCommand returns null: no command has an empty name and no item.
NullCommand == [name |-> <<>>, params |-> <<>>, items |-> <<>>]

parseLine(line) ==
  LET parts == Split(line, {"|"})
      tokens == [pi \in 1..Len(parts) |-> SplitWhitespace(trim(parts[pi]))]
      named == indexOf(tokens[1][1], "=") = 0
      name == IF named THEN tokens[1][1] ELSE <<>>
      items == [pi \in 1..Len(parts) |->
                  TokenParams(IF pi = 1 /\ named THEN Tail(tokens[pi]) ELSE tokens[pi],
                              <<>>)]
  IN  IF name = <<>> THEN NullCommand
      ELSE [name |-> name, params |-> items[1], items |-> items]

\* cmdStr as sendCommand builds it from name and the entries of params.
RECURSIVE serialize(_, _)
serialize(cmdStr, params) ==
  IF params = <<>> THEN cmdStr
  ELSE serialize(cmdStr \o <<" ">> \o Head(params)[1] \o <<"=">>
                   \o escapeTS3(Head(params)[2]),
                 Tail(params))

MaxVal == 2

ParseAlphabet == {"\\", " ", "|", "=", "/", "s", "a"}

CommandNames == {<<"a">>, <<"m", "v">>}

CommandKeys == {<<"k">>, <<"c", "_", "1">>}

\* The records of at most two parameters, in the order of their entries.
ParamRecords ==
  LET values == StringsUpTo(ParseAlphabet, MaxVal)
      entries == {<<key, val>> : key \in CommandKeys, val \in values}
  IN  {<<>>} \cup {<<e>> : e \in entries}
        \cup {r \in {<<e1, e2>> : e1, e2 \in entries} : r[1][1] # r[2][1]}

Serialize ==
  /\ tx.pc = "start"
  /\ tx' = [tx EXCEPT !.line = serialize(tx.input.name, tx.input.params),
                      !.pc = "serialized"]
  /\ UNCHANGED <<client, lastOp, pz, net, proxy, player, panel>>

Parse ==
  /\ tx.pc = "serialized"
  /\ tx' = [tx EXCEPT !.output = parseLine(tx.line), !.pc = "parsed"]
  /\ UNCHANGED <<client, lastOp, pz, net, proxy, player, panel>>

InitParse ==
  /\ client = InitClient(0)
  /\ lastOp = Op("new", NoPacket)
  /\ pz = PzIdle
  /\ proxy = ProxyIdle
  /\ player = PlayerIdle
  /\ panel = PanelIdle
  /\ net = NoNet
  /\ tx \in {[TxIdle EXCEPT !.input = [name |-> name, params |-> params],
                            !.pc = "start"]
               : name \in CommandNames, params \in ParamRecords}

NextParse == Serialize \/ Parse

SpecParse == InitParse /\ [][NextParse]_vars

----------------------------------------------------------------------------
\* The relay: the "upgrade" handler of the HTTP server and the handlers it
\* installs on the TCP socket and on the UDP socket.  Buffers are sequences
\* of bytes.

SECRET == "secret"

\* The key of the connection in the clients table.
ClientKey == "clientId"

\* a ^ b on bytes.
RECURSIVE Xor(_, _)
Xor(a, b) ==
  IF a = 0 THEN b
  ELSE IF b = 0 THEN a
  ELSE ((a + b) % 2) + 2 * Xor(a \div 2, b \div 2)

\* readUInt16BE, readBigUInt64BE: the number a sequence of bytes stands for.
RECURSIVE ReadBE(_)
ReadBE(bytes) ==
  IF bytes = <<>> THEN 0
  ELSE 256 * ReadBE(SubSeq(bytes, 1, Len(bytes) - 1)) + bytes[Len(bytes)]

\* writeUInt16BE, writeBigUInt64BE: n on width bytes.
RECURSIVE WriteBE(_, _)
WriteBE(n, width) ==
  IF width = 0 THEN <<>> ELSE Append(WriteBE(n \div 256, width - 1), n % 256)

\* parseWsFrame returns null.
NoFrame == [fin |-> FALSE, opcode |-> -1, payload |-> <<>>, totalLen |-> 0]

\* parseWsFrame that leaves the mask on the payload.
parseWsFrameMasked(buf) ==
  IF Len(buf) < 2 THEN NoFrame
  ELSE
    LET byte1 == buf[1]
        byte2 == buf[2]
        fin == byte1 \div 128 = 1
        opcode == byte1 % 16
        masked == byte2 \div 128 = 1
        len7 == byte2 % 128
        short == \/ len7 = 126 /\ Len(buf) < 4
                 \/ len7 = 127 /\ Len(buf) < 10
        payloadLen == CASE short -> 0
                        [] ~short /\ len7 = 126 -> ReadBE(SubSeq(buf, 3, 4))
                        [] ~short /\ len7 = 127 -> ReadBE(SubSeq(buf, 3, 10))
                        [] OTHER -> len7
        offset0 == CASE len7 = 126 -> 4 [] len7 = 127 -> 10 [] OTHER -> 2
        offset == IF masked THEN offset0 + 4 ELSE offset0
    IN  IF short THEN NoFrame
        ELSE IF masked /\ Len(buf) < offset0 + 4 THEN NoFrame
        ELSE IF Len(buf) < offset + payloadLen THEN NoFrame
        ELSE [fin |-> fin, opcode |-> opcode,
              payload |-> [i \in 1..payloadLen |->
                             buf[offset + i]],
              totalLen |-> offset + payloadLen]

parseWsFrame(buf) ==
  IF Len(buf) < 2 THEN NoFrame
  ELSE
    LET byte1 == buf[1]
        byte2 == buf[2]
        fin == byte1 \div 128 = 1
        opcode == byte1 % 16
        masked == byte2 \div 128 = 1
        len7 == byte2 % 128
        short == \/ len7 = 126 /\ Len(buf) < 4
                 \/ len7 = 127 /\ Len(buf) < 10
        payloadLen == CASE short -> 0
                        [] ~short /\ len7 = 126 -> ReadBE(SubSeq(buf, 3, 4))
                        [] ~short /\ len7 = 127 -> ReadBE(SubSeq(buf, 3, 10))
                        [] OTHER -> len7
        offset0 == CASE len7 = 126 -> 4 [] len7 = 127 -> 10 [] OTHER -> 2
        offset == IF masked THEN offset0 + 4 ELSE offset0
    IN  IF short THEN NoFrame
        ELSE IF masked /\ Len(buf) < offset0 + 4 THEN NoFrame
        ELSE IF Len(buf) < offset + payloadLen THEN NoFrame
        ELSE [fin |-> fin, opcode |-> opcode,
              payload |-> [i \in 1..payloadLen |->
                             IF masked
                               THEN Xor(buf[offset + i], buf[offset0 + ((i - 1) % 4) + 1])
                               ELSE buf[offset + i]],
              totalLen |-> offset + payloadLen]

\* sendWsFrame: socket.write throws nothing that gets out, and writes
\* nothing on a destroyed socket.
sendWsFrame(c, data, opcode) ==
  LET header == IF Len(data) < 126 THEN <<128 + opcode, Len(data)>>
                ELSE IF Len(data) < 65536
                  THEN <<128 + opcode, 126>> \o WriteBE(Len(data), 2)
                  ELSE <<128 + opcode, 127>> \o WriteBE(Len(data), 8)
  IN  IF c.destroyed THEN c
      ELSE [c EXCEPT !.wrote = Append(@, [kind |-> "frame", code |-> 0,
                                           bytes |-> header \o data])]

\* udpSocket.send: on a socket that is not running it throws.
udpSend(c, buf) ==
  IF c.udp = "open" THEN [c EXCEPT !.datagrams = Append(@, buf)]
  ELSE [c EXCEPT !.crashed = TRUE]

\* cleanup() that forgets that it has run.
relayCleanupAgain(c) ==
  [c EXCEPT !.cleaned = TRUE,
            !.clients = @ \ {ClientKey},
            !.udp = "closed", !.udpCloses = @ + 1,
            !.closePending = ~c.destroyed,
            !.destroyed = TRUE]

\* cleanup() of the connection.
relayCleanup(c) ==
  IF c.cleaned THEN c
  ELSE [c EXCEPT !.cleaned = TRUE,
                 !.clients = @ \ {ClientKey},
                 !.udp = "closed", !.udpCloses = @ + 1,
                 !.closePending = ~c.destroyed,
                 !.destroyed = TRUE]

\* onFrame that forwards every fragment at once.
onFrameEager(c, result) ==
  IF result.opcode = 8 THEN relayCleanup([c EXCEPT !.teardowns = @ + 1])
  ELSE IF result.opcode = 9 THEN sendWsFrame(c, result.payload, 10)
  ELSE IF result.opcode = 0
    THEN LET c1 == IF c.fragmentBuffer # <<>>
                     THEN [c EXCEPT !.fragmentBuffer = <<@[1] \o result.payload>>]
                     ELSE c
         IN  IF result.fin /\ c1.fragmentBuffer # <<>>
               THEN [udpSend(c1, c1.fragmentBuffer[1]) EXCEPT !.fragmentBuffer = <<>>]
               ELSE c1
  ELSE IF result.opcode = 2
    THEN IF ~result.fin
           THEN [udpSend(c, result.payload) EXCEPT !.fragmentBuffer = <<result.payload>>]
           ELSE udpSend(c, result.payload)
  ELSE c

\* The body of the loop of the "data" handler, for the frame result.
onFrame(c, result) ==
  IF result.opcode = 8 THEN relayCleanup([c EXCEPT !.teardowns = @ + 1])
  ELSE IF result.opcode = 9 THEN sendWsFrame(c, result.payload, 10)
  ELSE IF result.opcode = 0
    THEN LET c1 == IF c.fragmentBuffer # <<>>
                     THEN [c EXCEPT !.fragmentBuffer = <<@[1] \o result.payload>>]
                     ELSE c
         IN  IF result.fin /\ c1.fragmentBuffer # <<>>
               THEN [udpSend(c1, c1.fragmentBuffer[1]) EXCEPT !.fragmentBuffer = <<>>]
               ELSE c1
  ELSE IF result.opcode = 2
    THEN IF ~result.fin
           THEN [c EXCEPT !.fragmentBuffer = <<result.payload>>]
           ELSE udpSend(c, result.payload)
  ELSE c

\* The loop of the "data" handler over the frames wsBuffer holds: it ends
\* when no whole frame is left, and after a Close frame.
RECURSIVE Drain(_)
Drain(c) ==
  LET result == parseWsFrame(c.wsBuffer)
      c1 == onFrame([c EXCEPT !.wsBuffer = SubSeq(@, result.totalLen + 1, Len(@))],
                    result)
  IN  IF Len(c.wsBuffer) < 2 \/ result = NoFrame THEN c
      ELSE IF result.opcode = 8 \/ c1.crashed THEN c1
      ELSE Drain(c1)

\* The "data" handler of the socket.
onStreamData(c, data) == Drain([c EXCEPT !.wsBuffer = @ \o data])

\* The "close" handler of the socket.
onStreamClose(c) ==
  [relayCleanup([c EXCEPT !.teardowns = @ + 1]) EXCEPT !.closePending = FALSE]

\* The "error" handler of the socket.
onStreamError(c) == relayCleanup([c EXCEPT !.teardowns = @ + 1])

\* A UDP error that ends the connection.
onUdpErrorFatal(c) == relayCleanup([c EXCEPT !.udpErrorAt = Len(c.datagrams)])

\* The "error" handler of the UDP socket: it logs.
onUdpError(c) == [c EXCEPT !.udpErrorAt = Len(c.datagrams)]

\* The callback given to udpSocket.send: it logs the error, if any.
onUdpSendDone(c, err) ==
  IF err THEN [c EXCEPT !.udpErrorAt = Len(c.datagrams)] ELSE c

\* The "message" handler of the UDP socket.
onUdpMessage(c, msg) == sendWsFrame(c, msg, 2)

\* The "upgrade" handler.  new URL(req.url, ...) throws on a request target
\* that forms no URL with the Host header (such as "//"): the exception
\* leaves the handler, and with it the process.
onUpgrade(c, req) ==
  LET c0 == [c EXCEPT !.req = req]
  IN  IF ~req.parses
        THEN [c0 EXCEPT !.request = "threw", !.crashed = TRUE]
      ELSE IF req.token # SECRET
        THEN [c0 EXCEPT !.request = "unauthorized",
                        !.wrote = Append(@, [kind |-> "status", code |-> 401,
                                             bytes |-> <<>>]),
                        !.destroyed = TRUE]
      ELSE IF req.host \in {Null, ""}
        THEN [c0 EXCEPT !.request = "badRequest",
                        !.wrote = Append(@, [kind |-> "status", code |-> 400,
                                             bytes |-> <<>>]),
                        !.destroyed = TRUE]
      ELSE [c0 EXCEPT !.request = "accepted",
                      !.wrote = Append(@, [kind |-> "status", code |-> 101,
                                           bytes |-> <<>>]),
                      !.udp = "open",
                      !.clients = @ \cup {ClientKey}]

----------------------------------------------------------------------------
\* SpecProxy: one TCP socket of the relay, from the upgrade request to the
\* teardown; the peer writes WebSocket frames, which the network delivers
\* in chunks of any size.

MaxFrames == 3

\* The bytes of a frame as the peer writes it: form is the width of the
\* length field the peer chooses (7, 16 or 64 bits).
EncodeFrame(f) ==
  LET n == Len(f.payload)
  IN  <<(IF f.fin THEN 128 ELSE 0) + f.opcode,
        (IF f.masked THEN 128 ELSE 0)
          + (CASE f.form = 16 -> 126 [] f.form = 64 -> 127 [] OTHER -> n)>>
      \o (CASE f.form = 16 -> WriteBE(n, 2) [] f.form = 64 -> WriteBE(n, 8)
            [] OTHER -> <<>>)
      \o (IF f.masked THEN f.key ELSE <<>>)
      \o [i \in 1..n |-> IF f.masked THEN Xor(f.payload[i], f.key[((i - 1) % 4) + 1])
                         ELSE f.payload[i]]

WsFrame(fin, opcode, masked, form, payload) ==
  [fin |-> fin, opcode |-> opcode, masked |-> masked, form |-> form,
   key |-> <<165, 0, 255, 60>>, payload |-> payload]

\* The frames the peer chooses from: whole binary messages, the fragments
\* of one, a text message, the control frames.
PeerFrames ==
  {WsFrame(TRUE, 2, TRUE, 7, <<1, 2, 3, 4, 5>>),
   WsFrame(TRUE, 2, FALSE, 16, <<6>>),
   WsFrame(FALSE, 2, TRUE, 7, <<7, 8>>),
   WsFrame(FALSE, 0, TRUE, 7, <<9>>),
   WsFrame(TRUE, 0, TRUE, 64, <<10>>),
   WsFrame(TRUE, 1, TRUE, 7, <<11>>),
   WsFrame(TRUE, 9, TRUE, 7, <<12>>),
   WsFrame(TRUE, 10, TRUE, 7, <<13>>),
   WsFrame(TRUE, 8, TRUE, 7, <<>>)}

UpgradeRequests ==
  [token : {Null, SECRET, "wrong"}, host : {Null, "ts.example"}, parses : BOOLEAN]

\* An upgrade request arrives on the socket.
Upgrade(req) ==
  /\ proxy.request = "none"
  /\ proxy' = onUpgrade(proxy, req)
  /\ UNCHANGED <<client, lastOp, pz, net, tx, player, panel>>

\* The peer writes a frame on the stream it was granted.
PeerWrite(f) ==
  /\ proxy.request = "accepted" /\ ~proxy.destroyed /\ ~proxy.crashed
  /\ Len(proxy.frames) < MaxFrames
  /\ proxy' = [proxy EXCEPT !.frames = Append(@, f),
                            !.inFlight = @ \o EncodeFrame(f)]
  /\ UNCHANGED <<client, lastOp, pz, net, tx, player, panel>>

\* A "data" event with the next k bytes of the stream.
StreamData(k) ==
  /\ proxy.request = "accepted" /\ ~proxy.destroyed /\ ~proxy.crashed
  /\ k \in 1..Len(proxy.inFlight)
  /\ proxy' = [onStreamData(proxy, SubSeq(proxy.inFlight, 1, k))
                 EXCEPT !.inFlight = SubSeq(@, k + 1, Len(@)),
                        !.delivered = @ + k]
  /\ UNCHANGED <<client, lastOp, pz, net, tx, player, panel>>

\* The socket's "close" event: the peer has ended the stream, or the socket
\* was destroyed.
StreamClose ==
  /\ proxy.request = "accepted" /\ ~proxy.crashed
  /\ ~proxy.destroyed \/ proxy.closePending
  /\ proxy' = onStreamClose(proxy)
  /\ UNCHANGED <<client, lastOp, pz, net, tx, player, panel>>

\* The socket's "error" event.
StreamError ==
  /\ proxy.request = "accepted" /\ ~proxy.destroyed /\ ~proxy.crashed
  /\ proxy' = onStreamError(proxy)
  /\ UNCHANGED <<client, lastOp, pz, net, tx, player, panel>>

\* The UDP socket's "error" event: the handler logs.
UdpError ==
  /\ proxy.udp = "open" /\ ~proxy.crashed
  /\ proxy' = onUdpError(proxy)
  /\ UNCHANGED <<client, lastOp, pz, net, tx, player, panel>>

\* The callback of udpSocket.send, called with an error: it logs.
UdpSendFailed ==
  /\ proxy.datagrams # <<>> /\ ~proxy.crashed
  /\ proxy.udpErrorAt < Len(proxy.datagrams)
  /\ proxy' = onUdpSendDone(proxy, TRUE)
  /\ UNCHANGED <<client, lastOp, pz, net, tx, player, panel>>

InitProxy ==
  /\ client = InitClient(0)
  /\ lastOp = Op("new", NoPacket)
  /\ pz = PzIdle
  /\ proxy = ProxyIdle
  /\ player = PlayerIdle
  /\ panel = PanelIdle
  /\ tx = TxIdle
  /\ net = NoNet

NextProxy ==
  \/ \E req \in UpgradeRequests : Upgrade(req)
  \/ \E f \in PeerFrames : PeerWrite(f)
  \/ \E k \in 1..Len(proxy.inFlight) : StreamData(k)
  \/ StreamClose
  \/ StreamError
  \/ UdpError
  \/ UdpSendFailed

SpecProxy == InitProxy /\ [][NextProxy]_vars

----------------------------------------------------------------------------
\* SpecInbound: one connection of the relay with datagrams arriving on its
\* UDP socket, from the remote of the upgrade request and from elsewhere.

MaxInbound == 2

\* parseInt(url.searchParams.get("port") || "9987") of a request without a
\* port parameter.
DefaultPort == 9987

\* The remote the upgrade request named.
Remote(c) == [address |-> c.req.host, port |-> DefaultPort]

\* The senders of datagrams: the remote, another port of its host, and
\* another host.
Senders ==
  {[address |-> "ts.example", port |-> DefaultPort],
   [address |-> "ts.example", port |-> 40000],
   [address |-> "elsewhere.example", port |-> DefaultPort]}

\* A datagram arrives on the UDP socket, which the first send has bound.
UdpMessage(from, msg) ==
  /\ proxy.udp = "open" /\ ~proxy.crashed
  /\ proxy.datagrams # <<>>
  /\ Len(proxy.inbound) < MaxInbound
  /\ proxy' = [onUdpMessage(proxy, msg)
                 EXCEPT !.inbound = Append(@, [from |-> from, msg |-> msg])]
  /\ UNCHANGED <<client, lastOp, pz, net, tx, player, panel>>

NextInbound ==
  \/ \E req \in UpgradeRequests : Upgrade(req)
  \/ \E f \in {WsFrame(TRUE, 2, FALSE, 16, <<6>>),
               WsFrame(TRUE, 9, TRUE, 7, <<12>>),
               WsFrame(TRUE, 8, TRUE, 7, <<>>)} : PeerWrite(f)
  \/ \E k \in 1..Len(proxy.inFlight) : StreamData(k)
  \/ StreamClose
  \/ \E from \in Senders, msg \in {<<>>, <<21>>, <<22, 23>>} : UdpMessage(from, msg)

SpecInbound == InitProxy /\ [][NextInbound]_vars

----------------------------------------------------------------------------
\* SpecClients: the relay with several connections and its clients table.
\* Here proxy holds, for each TCP socket, what the "upgrade" handler has made
\* of it, and the table as the set of its entries (one for each key).

MaxConns == 3

\* crypto.randomBytes(4).toString("hex"): the ids the handler can draw.
GeneratedIds == {"00000000", "a1b2c3d4"}

NoConnection ==
  [accepted |-> FALSE, clientId |-> "", udp |-> "none", cleaned |-> FALSE,
   destroyed |-> FALSE, closePending |-> FALSE]

RelayIdle ==
  [conn |-> [k \in 1..MaxConns |-> NoConnection], clients |-> {}, exited |-> FALSE]

\* clients.set(clientId, {socket, udpSocket, ...}): k stands for the socket
\* and the UDP socket of connection k.
tableSet(table, clientId, k) ==
  {e \in table : e.key # clientId} \cup {[key |-> clientId, conn |-> k]}

\* clients.delete(clientId)
tableDelete(table, clientId) == {e \in table : e.key # clientId}

\* The "upgrade" handler on socket k for a request it accepts, drawing
\* clientId.
acceptConnection(r, k, clientId) ==
  [r EXCEPT !.conn[k] = [NoConnection EXCEPT !.accepted = TRUE,
                                             !.clientId = clientId,
                                             !.udp = "open"],
            !.clients = tableSet(@, clientId, k)]

\* cleanup() in the closure of connection k.
cleanupConnection(r, k) ==
  IF r.conn[k].cleaned THEN r
  ELSE [r EXCEPT !.conn[k].cleaned = TRUE,
                 !.clients = tableDelete(@, r.conn[k].clientId),
                 !.conn[k].udp = "closed",
                 !.conn[k].closePending = ~r.conn[k].destroyed,
                 !.conn[k].destroyed = TRUE]

\* The SIGINT handler: it closes the UDP socket and destroys the socket of
\* every entry of the table, and the process exits.
onSigint(r) ==
  [r EXCEPT !.conn = [k \in 1..MaxConns |->
                        IF \E e \in r.clients : e.conn = k
                          THEN [r.conn[k] EXCEPT !.udp = "closed", !.destroyed = TRUE]
                          ELSE r.conn[k]],
            !.exited = TRUE]

\* An upgrade request that the relay accepts arrives on socket k.
Accept(k, clientId) ==
  /\ ~proxy.exited
  /\ ~proxy.conn[k].accepted
  /\ proxy' = acceptConnection(proxy, k, clientId)
  /\ UNCHANGED <<client, lastOp, pz, net, tx, player, panel>>

\* The "close" or "error" event of socket k, or a Close frame on it.
Teardown(k) ==
  /\ ~proxy.exited
  /\ proxy.conn[k].accepted
  /\ ~proxy.conn[k].destroyed \/ proxy.conn[k].closePending
  /\ proxy' = [cleanupConnection(proxy, k) EXCEPT !.conn[k].closePending = FALSE]
  /\ UNCHANGED <<client, lastOp, pz, net, tx, player, panel>>

Sigint ==
  /\ ~proxy.exited
  /\ proxy' = onSigint(proxy)
  /\ UNCHANGED <<client, lastOp, pz, net, tx, player, panel>>

InitClients ==
  /\ client = InitClient(0)
  /\ lastOp = Op("new", NoPacket)
  /\ pz = PzIdle
  /\ proxy = RelayIdle
  /\ player = PlayerIdle
  /\ panel = PanelIdle
  /\ tx = TxIdle
  /\ net = NoNet

NextClients ==
  \/ \E k \in 1..MaxConns, clientId \in GeneratedIds : Accept(k, clientId)
  \/ \E k \in 1..MaxConns : Teardown(k)
  \/ Sigint

SpecClients == InitClients /\ [][NextClients]_vars

----------------------------------------------------------------------------
\* The WebSocketClient of the panel.

\* connect(), called by the application or by the reconnect timer.
wsConnect(w) ==
  IF (w.ws # 0 /\ w.sockets[w.ws] = "open") \/ w.isConnecting THEN w
  ELSE [w EXCEPT !.isConnecting = TRUE,
                 !.sockets = Append(@, "connecting"),
                 !.ws = Len(w.sockets) + 1]

\* The handlers connect() puts on the socket it creates.
onopen(w) == [w EXCEPT !.isConnecting = FALSE]

onerror(w) == [w EXCEPT !.isConnecting = FALSE]

onclose(w) ==
  [w EXCEPT !.isConnecting = FALSE,
            !.timers = Append(@, "armed"),
            !.reconnectTimer = Len(w.timers) + 1]

\* clearTimeout does nothing to a timer that has fired.
clearTimeout(timers, t) ==
  IF t # 0 /\ timers[t] = "armed" THEN [timers EXCEPT ![t] = "cleared"] ELSE timers

\* WebSocket.close() does nothing to a socket that is closing or closed.
wsClose(sockets, i) ==
  IF i # 0 /\ sockets[i] \in {"connecting", "open"}
    THEN [sockets EXCEPT ![i] = "closing"]
    ELSE sockets

\* disconnect()
wsDisconnect(w) ==
  [w EXCEPT !.timers = clearTimeout(@, w.reconnectTimer),
            !.sockets = wsClose(@, w.ws),
            !.ws = 0]

----------------------------------------------------------------------------
\* SpecPanel: the application calls connect() and disconnect(); the sockets
\* open, fail and close; the reconnect timers fire.

MaxSockets == 3

PanelConnect ==
  /\ Len(panel.sockets) < MaxSockets
  /\ panel' = [wsConnect(panel) EXCEPT !.op = "connect", !.disconnected = FALSE]
  /\ UNCHANGED <<client, lastOp, pz, net, tx, proxy, player>>

PanelDisconnect ==
  /\ panel' = [wsDisconnect(panel) EXCEPT !.op = "disconnect", !.disconnected = TRUE]
  /\ UNCHANGED <<client, lastOp, pz, net, tx, proxy, player>>

\* The "open" event of socket i.
PanelOpen(i) ==
  /\ panel.sockets[i] = "connecting"
  /\ panel' = [onopen([panel EXCEPT !.sockets[i] = "open"]) EXCEPT !.op = "open"]
  /\ UNCHANGED <<client, lastOp, pz, net, tx, proxy, player>>

\* The "error" event of socket i, whose "close" event follows.
PanelError(i) ==
  /\ panel.sockets[i] \in {"connecting", "open"}
  /\ panel' = [onerror([panel EXCEPT !.sockets[i] = "failed"]) EXCEPT !.op = "error"]
  /\ UNCHANGED <<client, lastOp, pz, net, tx, proxy, player>>

\* The "close" event of socket i: the server closed it, it failed, or
\* close() was called on it.
PanelClose(i) ==
  /\ panel.sockets[i] \in {"open", "failed", "closing"}
  /\ panel' = [onclose([panel EXCEPT !.sockets[i] = "closed"]) EXCEPT !.op = "close"]
  /\ UNCHANGED <<client, lastOp, pz, net, tx, proxy, player>>

\* Reconnect timer t fires.
ReconnectTimerFire(t) ==
  /\ panel.timers[t] = "armed"
  /\ Len(panel.sockets) < MaxSockets
  /\ panel' = [wsConnect([panel EXCEPT !.timers[t] = "fired"]) EXCEPT !.op = "timer"]
  /\ UNCHANGED <<client, lastOp, pz, net, tx, proxy, player>>

InitPanel ==
  /\ client = InitClient(0)
  /\ lastOp = Op("new", NoPacket)
  /\ pz = PzIdle
  /\ proxy = ProxyIdle
  /\ player = PlayerIdle
  /\ panel = PanelIdle
  /\ tx = TxIdle
  /\ net = NoNet

NextPanel ==
  \/ PanelConnect
  \/ PanelDisconnect
  \/ \E i \in 1..Len(panel.sockets) : PanelOpen(i)
  \/ \E i \in 1..Len(panel.sockets) : PanelError(i)
  \/ \E i \in 1..Len(panel.sockets) : PanelClose(i)
  \/ \E t \in 1..Len(panel.timers) : ReconnectTimerFire(t)

SpecPanel == InitPanel /\ [][NextPanel]_vars

----------------------------------------------------------------------------
\* The QueueManager.  A song is its duration string, kept as the parts
\* split(":") gives ("" is <<"">>).  Numbers are counted in halves, so that
\* 0.5 is a number: Seconds(1) is the number 1.

Seconds(n) == 2 * n

\* A number of JavaScript: NaN, or the value v.
NaN == [nan |-> TRUE, v |-> 0]

Num(v) == [nan |-> FALSE, v |-> v]

\* Number(part) on the parts the model uses.
Number(part) ==
  CASE part \in {"", "0", "00"} -> Num(0)
    [] part = "0.5" -> Num(1)
    [] part = "1" -> Num(Seconds(1))
    [] part = "2" -> Num(Seconds(2))
    [] part = "-1" -> Num(Seconds(-1))
    [] OTHER -> NaN

\* parseInt(durationStr): the integer the string starts with; it stops at
\* the first ":" or ".".
parseIntOf(durationStr) ==
  CASE Head(durationStr) \in {"0", "00", "0.5"} -> Num(0)
    [] Head(durationStr) = "1" -> Num(Seconds(1))
    [] Head(durationStr) = "2" -> Num(Seconds(2))
    [] Head(durationStr) = "-1" -> Num(Seconds(-1))
    [] OTHER -> NaN

parseDuration(durationStr) ==
  LET parts == [i \in 1..Len(durationStr) |-> Number(durationStr[i])]
      sum(a, b) == IF a.nan \/ b.nan THEN NaN ELSE Num(a.v + b.v)
      times(a, k) == IF a.nan THEN NaN ELSE Num(a.v * k)
      seconds ==
        IF Len(parts) = 3
          THEN sum(sum(times(parts[1], 3600), times(parts[2], 60)), parts[3])
        ELSE IF Len(parts) = 2 THEN sum(times(parts[1], 60), parts[2])
        ELSE IF parseIntOf(durationStr).nan \/ parseIntOf(durationStr).v = 0
          THEN Num(Seconds(300))
        ELSE parseIntOf(durationStr)
  IN  IF durationStr = <<"">> THEN Seconds(300)
      ELSE IF ~seconds.nan /\ seconds.v > 0 THEN seconds.v
      ELSE Seconds(300)

\* A song as the panel or the bot hands it in: its duration, and whether
\* that is a string; a JSON body can carry a number instead.
Song(duration) == [duration |-> duration, typeofDuration |-> "string"]

\* parseDuration throws on a duration that is neither falsy nor a string:
\* durationStr.split is not a function.
parseDurationThrows(song) == song.typeofDuration # "string"

stopProgressTimer(q) ==
  IF q.progressInterval
    THEN [q EXCEPT !.progressInterval = FALSE, !.intervals = @ - 1]
    ELSE q

startProgressTimer(q) ==
  [stopProgressTimer(q) EXCEPT !.progressInterval = TRUE, !.intervals = @ + 1]

\* playNext: the exception of parseDuration leaves it after currentSong,
\* isPlaying and progress were assigned.
playNext(q) ==
  LET q1 == stopProgressTimer(q)
      q2 == [q1 EXCEPT !.currentSong = <<Head(q1.queue)>>,
                       !.queue = Tail(@),
                       !.isPlaying = TRUE,
                       !.progress = 0]
  IN  IF Len(q1.queue) > 0
        THEN IF parseDurationThrows(Head(q1.queue))
               THEN [q2 EXCEPT !.threw = TRUE]
               ELSE startProgressTimer(
                      [q2 EXCEPT !.duration = parseDuration(Head(q1.queue).duration)])
        ELSE [q1 EXCEPT !.currentSong = <<>>, !.isPlaying = FALSE,
                        !.progress = 0, !.duration = 0]

addToQueue(q, song) ==
  LET q1 == [q EXCEPT !.queue = Append(@, song)]
  IN  IF q1.currentSong = <<>> THEN playNext(q1) ELSE q1

\* removeFromQueue(id) with the id of the i-th song of the queue, or with
\* an id no song of the queue has.
removeFromQueue(q, i) ==
  IF i \in 1..Len(q.queue) THEN [q EXCEPT !.queue = RemoveAt(@, i)] ELSE q

clearQueue(q) == [q EXCEPT !.queue = <<>>]

\* moveInQueue: the indices count from 0.
moveInQueue(q, fromIndex, toIndex) ==
  IF fromIndex < 0 \/ fromIndex >= Len(q.queue) THEN q
  ELSE IF toIndex < 0 \/ toIndex >= Len(q.queue) THEN q
  ELSE LET item == q.queue[fromIndex + 1]
           rest == RemoveAt(q.queue, fromIndex + 1)
       IN  [q EXCEPT !.queue = SubSeq(rest, 1, toIndex) \o <<item>>
                                 \o SubSeq(rest, toIndex + 1, Len(rest))]

play(q) ==
  IF q.currentSong # <<>> THEN startProgressTimer([q EXCEPT !.isPlaying = TRUE])
  ELSE IF Len(q.queue) > 0 THEN playNext(q)
  ELSE q

pause(q) == stopProgressTimer([q EXCEPT !.isPlaying = FALSE])

stop(q) ==
  stopProgressTimer([q EXCEPT !.isPlaying = FALSE, !.currentSong = <<>>,
                              !.progress = 0, !.duration = 0])

skip(q) == playNext(stopProgressTimer(q))

\* seek(time): Math.max(0, Math.min(time, this.duration)).
seek(q, time) ==
  LET least == IF time < q.duration THEN time ELSE q.duration
  IN  [q EXCEPT !.progress = IF least > 0 THEN least ELSE 0]

\* The callback of the progress timer: an exception that leaves it ends
\* the process.
progressTick(q) ==
  LET q1 == [q EXCEPT !.progress = @ + Seconds(1)]
      q2 == IF q1.duration > 0 /\ q1.progress >= q1.duration THEN playNext(q1)
            ELSE q1
  IN  IF q.isPlaying /\ q.currentSong # <<>>
        THEN [q2 EXCEPT !.crashed = q2.threw]
        ELSE q

\* A call starts with no exception.
Called(q) == [q EXCEPT !.threw = FALSE]

----------------------------------------------------------------------------
\* SpecQueue: the QueueManager under the calls of the panel and the ticks
\* of its timer.

MaxQueue == 2

MaxTicks == 3

\* The duration strings of the songs: "", "0:00", "abc", "0", "-1", "a:1",
\* "0:0.5", "0:01", "0:02", "0:00:02", "1:0:0:0".
DurationStrings ==
  {<<"">>, <<"0", "00">>, <<"abc">>, <<"0">>, <<"-1">>, <<"a", "1">>,
   <<"0", "0.5">>, <<"0", "1">>, <<"0", "2">>, <<"0", "00", "2">>,
   <<"1", "0", "0", "0">>}

\* The songs handed in: with these duration strings, and one whose
\* duration is the number 2.
Songs ==
  {Song(d) : d \in DurationStrings}
    \cup {[duration |-> <<"2">>, typeofDuration |-> "number"]}

AddToQueue(song) ==
  /\ Len(player.queue) < MaxQueue
  /\ ~player.crashed
  /\ player' = addToQueue(Called(player), song)
  /\ UNCHANGED <<client, lastOp, pz, net, tx, proxy, panel>>

Play ==
  /\ ~player.crashed
  /\ player' = play(Called(player))
  /\ UNCHANGED <<client, lastOp, pz, net, tx, proxy, panel>>

Pause ==
  /\ ~player.crashed
  /\ player' = pause(Called(player))
  /\ UNCHANGED <<client, lastOp, pz, net, tx, proxy, panel>>

Stop ==
  /\ ~player.crashed
  /\ player' = stop(Called(player))
  /\ UNCHANGED <<client, lastOp, pz, net, tx, proxy, panel>>

Skip ==
  /\ ~player.crashed
  /\ player' = skip(Called(player))
  /\ UNCHANGED <<client, lastOp, pz, net, tx, proxy, panel>>

Seek(time) ==
  /\ ~player.crashed
  /\ player' = seek(Called(player), time)
  /\ UNCHANGED <<client, lastOp, pz, net, tx, proxy, panel>>

RemoveFromQueue(i) ==
  /\ ~player.crashed
  /\ player' = removeFromQueue(Called(player), i)
  /\ UNCHANGED <<client, lastOp, pz, net, tx, proxy, panel>>

ClearQueue ==
  /\ ~player.crashed
  /\ player' = clearQueue(Called(player))
  /\ UNCHANGED <<client, lastOp, pz, net, tx, proxy, panel>>

MoveInQueue(fromIndex, toIndex) ==
  /\ ~player.crashed
  /\ player' = moveInQueue(Called(player), fromIndex, toIndex)
  /\ UNCHANGED <<client, lastOp, pz, net, tx, proxy, panel>>

\* The progress timer fires.
ProgressTimerFire ==
  /\ ~player.crashed
  /\ player.intervals > 0
  /\ player.ticks < MaxTicks
  /\ player' = [progressTick(Called(player)) EXCEPT !.ticks = @ + 1]
  /\ UNCHANGED <<client, lastOp, pz, net, tx, proxy, panel>>

InitQueue ==
  /\ client = InitClient(0)
  /\ lastOp = Op("new", NoPacket)
  /\ pz = PzIdle
  /\ proxy = ProxyIdle
  /\ player = PlayerIdle
  /\ panel = PanelIdle
  /\ tx = TxIdle
  /\ net = NoNet

NextQueue ==
  \/ \E song \in Songs : AddToQueue(song)
  \/ \E i \in 1..(MaxQueue + 1) : RemoveFromQueue(i)
  \/ ClearQueue
  \/ \E fromIndex, toIndex \in -1..MaxQueue : MoveInQueue(fromIndex, toIndex)
  \/ Play
  \/ Pause
  \/ Stop
  \/ Skip
  \/ \E time \in {Seconds(-1), 0, Seconds(299), Seconds(400)} : Seek(time)
  \/ ProgressTimerFire

SpecQueue == InitQueue /\ [][NextQueue]_vars

----------------------------------------------------------------------------
\* SpecPuzzle: solveRsaPuzzle applied to every input within the bounds.

PuzzleSolve ==
  /\ pz.pc = "start"
  /\ pz' = [pz EXCEPT !.y = solveRsaPuzzle(pz.x, pz.n, pz.level), !.pc = "done"]
  /\ UNCHANGED <<client, lastOp, net, tx, proxy, player, panel>>

InitPuzzle ==
  /\ client = InitClient(0)
  /\ lastOp = Op("new", NoPacket)
  /\ proxy = ProxyIdle
  /\ player = PlayerIdle
  /\ panel = PanelIdle
  /\ pz \in {[x |-> x, n |-> n, level |-> level, y |-> -1, pc |-> "start"]
               : x \in 0..MaxPuzzle, n \in 1..MaxPuzzle, level \in 0..MaxLevel}
  /\ net = NoNet
  /\ tx = TxIdle

NextPuzzle == PuzzleSolve

SpecPuzzle == InitPuzzle /\ [][NextPuzzle]_vars

----------------------------------------------------------------------------
\* The server of the happy path

\* x^e mod n by e multiplications by x: the reference the server checks y
\* against.
RECURSIVE PowMod(_, _, _)
PowMod(x, e, n) == IF e = 0 THEN 1 % n ELSE (x * PowMod(x, e - 1, n)) % n

\* The server's answer to one packet of the client, by the protocol: Init1
\* echoing random0, Init3 with a puzzle of its choice, initivexpand2 under
\* the fake key once the puzzle is solved, an Ack for each command, and
\* initserver under the session key once both clientek and clientinit are in.
ServerKey(s) ==
  createKeyNonce(PacketType_Command, -1, 1, 0, computeSharedIv(s.alpha, "b", s.ek))

ServerAck(s, p) ==
  [s EXCEPT !.s2c = Append(@, S2CPacket(PacketType_Ack, 0, {}, FAKE_KEY, 0)),
            !.got = @ \cup {p.content.name},
            !.ek = IF p.content.name = "clientek" THEN p.content.params.ek ELSE @]

ServerAdmit(s) ==
  IF {"clientek", "clientinit"} \subseteq s.got /\ "initserver" \notin s.got
    THEN [s EXCEPT !.s2c = Append(@, S2CPacket(PacketType_Command, 1, {}, ServerKey(s),
                                               <<InitServerPiece>>)),
                   !.got = @ \cup {"initserver"}]
    ELSE s

ServerReply(s, p, x, level) ==
  CASE p.type = PacketType_Init /\ p.content.step = 0 ->
         [s EXCEPT !.s2c = Append(@, Init1Packet(p.content.random0))]
    [] p.type = PacketType_Init /\ p.content.step = 2 ->
         [s EXCEPT !.s2c = Append(@, Init3Packet(x, 7, level)),
                   !.puzzle = <<x, 7, level>>]
    [] p.type = PacketType_Init /\ p.content.step = 4 ->
         IF p.content.y = PowMod(s.puzzle[1], 2 ^ s.puzzle[3], s.puzzle[2])
           THEN [s EXCEPT !.alpha = p.content.alpha,
                          !.s2c = Append(@, S2CPacket(PacketType_Command, 0, {},
                                                      FAKE_KEY, <<IvxPiece>>))]
           ELSE s
    [] p.type = PacketType_Command -> ServerAdmit(ServerAck(s, p))
    [] p.type = PacketType_Ping ->
         [s EXCEPT !.s2c = Append(@, S2CPacket(PacketType_Pong, 0, {FLAGS_UNENCRYPTED},
                                               ZeroMac, 0))]
    [] OTHER -> s

\* The server takes the next packet off the wire and answers it.
ServerStep ==
  /\ net.on
  /\ net.c2s # <<>>
  /\ \E x \in {3, 5}, level \in 1..LevelCeiling :
       net' = ServerReply([net EXCEPT !.c2s = Tail(@)], Head(net.c2s), x, level)
  /\ lastOp' = Op("server", NoPacket)
  /\ UNCHANGED <<client, pz, tx, proxy, player, panel>>

\* Nothing is on the wire and no callback of the client is pending: the
\* server answers within milliseconds, so this is what holds when 15 s are up.
Quiet ==
  /\ net.c2s = <<>>
  /\ net.s2c = <<>>
  /\ ~client.bindPending
  /\ client.ivTasks = <<>>

----------------------------------------------------------------------------
\* SpecHappy: the handshake against that server over a wire that loses
\* nothing.  The application calls connect() and awaits it; the event loop
\* runs every callback that is ready, the server answers every packet.

InitHappy ==
  /\ client \in {InitClient(r) : r \in 0..MaxRandom}
  /\ lastOp = Op("new", NoPacket)
  /\ pz = PzIdle
  /\ proxy = ProxyIdle
  /\ player = PlayerIdle
  /\ panel = PanelIdle
  /\ tx = TxIdle
  /\ net = [NoNet EXCEPT !.on = TRUE]

NextHappy ==
  \/ Connect
  \/ SocketBound
  \/ ServerStep
  \/ net.s2c # <<>> /\ Receive(Head(net.s2c))
  \/ \E s \in 1..NumSecrets : IvDerive(1, s)
  \/ IvSendEk(1)
  \/ Quiet /\ ConnectTimerFire
  \/ SocketClose

SpecHappy ==
  /\ InitHappy
  /\ [][NextHappy]_vars
  /\ WF_vars(SocketBound)
  /\ WF_vars(ServerStep)
  /\ WF_vars(net.s2c # <<>> /\ Receive(Head(net.s2c)))
  /\ WF_vars(\E s \in 1..NumSecrets : IvDerive(1, s))
  /\ WF_vars(IvSendEk(1))
  /\ WF_vars(Quiet /\ ConnectTimerFire)
  /\ WF_vars(SocketClose)

----------------------------------------------------------------------------
\* Properties

\* C1: against the server of SpecHappy, a session started by connect()
\* eventually is Authenticated with the client id the server assigned, and
\* connect() has succeeded.
C1_HappyPath ==
  (client.connectResult = "pending") ~>
    (/\ client.connected
     /\ client.ownClientId = parseInt(InitServerPiece.params["aclid"])
     /\ client.connectResult = "resolved")


TimeoutError == "Connection timeout (15s)"

\* The session is torn down: transport closed, both timers cleared.
TornDown(c) ==
  /\ c.socket = Null
  /\ ~c.pingInterval
  /\ c.connectTimeout = Null
  /\ ~c.connected

\* C2, as claimed: when the connect timer fires on a session that is not
\* Authenticated, connect() fails with the timeout error and the session is
\* torn down; when it fires on an Authenticated session it tears nothing down.
C2_TimeoutAsClaimed ==
  [][lastOp'.op = "connectTimer" =>
       IF ~client.connected
         THEN client'.connectResult = TimeoutError /\ TornDown(client')
         ELSE ~TornDown(client')]_vars

\* C2, amended: when the connect timer fires on a session that is not
\* Authenticated, the session is torn down, and connect() fails with the
\* timeout error unless it has already failed with another error, which then
\* stands; and while the session is Authenticated the connect timer is not
\* armed, so it cannot tear the session down.
C2_Timeout ==
  /\ [][(lastOp'.op = "connectTimer" /\ ~client.connected) =>
          /\ TornDown(client')
          /\ client'.closing
          /\ client.connectResult = "pending" => client'.connectResult = TimeoutError
          /\ client.connectResult # "pending" =>
               client'.connectResult = client.connectResult]_vars
  /\ [](client.connected => client.connectTimeout # "armed")

\* C2 witness: the timer fired after Init4 was sent and failed connect().
C2_Witness ==
  /\ lastOp.op = "connectTimer"
  /\ client.initStep = 4
  /\ client.connectResult = TimeoutError
  /\ TornDown(client)

\* The key the client derives for an inbound packet.
SessionKeyOf(c, p) == createKeyNonce(p.type, -1, p.id, c.generationId, c.sharedIv)

\* C3: once sharedIv is set, a Command or CommandLow packet reaches the
\* command handler only if its tag verifies under the session key of its
\* type, id and generation.
C3_OnlySessionKey ==
  (/\ lastOp.op = "recv"
   /\ lastOp.pkt.type \in CmdTypes
   /\ client.sharedIv # NoIv
   /\ client.handled # <<>>)
  => lastOp.pkt.mac = SessionKeyOf(client, lastOp.pkt)

\* A rejection of connect() other than the timeout.
Rejected(c) == c.connectResult \notin {"none", "pending", "resolved", TimeoutError}

\* C4: an Init1 whose random0_r differs from random0 makes the client send
\* nothing and fail connect().
C4_Init1Mismatch ==
  (/\ lastOp.op = "recv"
   /\ lastOp.pkt.type = PacketType_Init
   /\ lastOp.pkt.content.step = 1
   /\ lastOp.pkt.content.random0_r # client.initRandom0)
  => client.sent = <<>> /\ Rejected(client)

\* C5: an Init3 (with a modulus n > 0) whose level is above the ceiling is
\* rejected: no squaring is performed, nothing is sent, connect() fails.
C5_LevelCap ==
  (/\ lastOp.op = "recv"
   /\ lastOp.pkt.type = PacketType_Init
   /\ lastOp.pkt.content.step = 3
   /\ lastOp.pkt.content.n > 0
   /\ lastOp.pkt.content.level > LevelCeiling)
  => client.squarings = 0 /\ client.sent = <<>> /\ Rejected(client)

\* C6: solveRsaPuzzle(x, n, level) is x^(2^level) mod n for level >= 1 and
\* n > 0, and x itself for level = 0.
C6_Puzzle ==
  pz.pc = "done" =>
    pz.y = IF pz.level = 0 THEN pz.x ELSE PowMod(pz.x, 2 ^ pz.level, pz.n)

\* C6 witness: 5^(2^2) mod 3 = 625 mod 3 = 1.
C6_Witness ==
  pz.pc = "done" /\ pz.x = 5 /\ pz.n = 3 /\ pz.level = 2 /\ pz.y = 1

\* The id of the packet of type t sent before the k-th one of this step.
PrevId(before, ids, k, t) == IF k = 1 THEN before.lastOut[t] ELSE ids[k - 1]

\* C7: each packet handed to the transport carries the id of the previous
\* packet of its type plus 1 modulo 2^16, and a step that sends no packet of
\* a type leaves that type's counter alone.
C7_Monotone ==
  [][\A t \in SendTypes :
       LET ids == IdsOfType(client'.sent, t)
       IN  /\ \A k \in 1..Len(ids) :
                PrevId(client, ids, k, t) # -1 =>
                  ids[k] = (PrevId(client, ids, k, t) + 1) % IdModulus
           /\ ids = <<>> => client'.outPacketId[t] = client.outPacketId[t]]_vars

\* C7 witness: the Command id has wrapped to 0 while Ack ids were handed out
\* in between.
C7_Witness ==
  /\ client.lastOut[PacketType_Command] = 0
  /\ client.lastOut[PacketType_Ack] = IdModulus - 1
  /\ lastOp.op = "sendText"

\* C8: a step in which the id of an encrypted type wraps from 65535 to 0
\* increments the generation, and the packet that gets id 0 is encrypted
\* under the incremented generation.
C8_GenerationOnWrap ==
  [][\A t \in {PacketType_Command, PacketType_Ack, PacketType_AckLow} :
       (client.outPacketId[t] = IdModulus - 1 /\ client'.outPacketId[t] = 0) =>
         client'.generationId = client.generationId + 1]_vars

\* The concatenation of a sequence of payloads.
RECURSIVE Concat(_)
Concat(payloads) ==
  IF payloads = <<>> THEN <<>> ELSE Head(payloads) \o Concat(Tail(payloads))

\* C9: a fragment is not handed to the command handler on its own, and the
\* packet without the flag that ends K - 1 >= 1 fragments of its type hands
\* the handler, once, the concatenation of the K payloads.
C9_Assembly ==
  [][(/\ lastOp'.op = "recv"
      /\ lastOp'.pkt.type \in CmdTypes
      /\ lastOp'.pkt.mac = SessionKeyOf(client, lastOp'.pkt)
      /\ FLAGS_COMPRESSED \notin lastOp'.pkt.flags) =>
       IF FLAGS_FRAGMENTED \in lastOp'.pkt.flags
         THEN client'.handled = <<>>
         ELSE client.fragSeen[lastOp'.pkt.type] # <<>> =>
                client'.handled =
                  <<Concat(client.fragSeen[lastOp'.pkt.type]) \o lastOp'.pkt.content>>]_vars

\* C10: a Command or CommandLow packet whose tag verifies under none of the
\* keys the client tries (the fake key, and the session key once sharedIv is
\* set) changes nothing: no field of the object, nothing sent, handled or
\* emitted.
C10_BadMacDropped ==
  [][(/\ lastOp'.op = "recv"
      /\ lastOp'.pkt.type \in CmdTypes
      /\ FLAGS_UNENCRYPTED \notin lastOp'.pkt.flags
      /\ lastOp'.pkt.mac # FAKE_KEY
      /\ client.sharedIv = NoIv \/ lastOp'.pkt.mac # SessionKeyOf(client, lastOp'.pkt)) =>
       client' = Begin(client)]_vars

\* C10 witness: a CommandLow packet with a forged tag was received in an
\* established session, and nothing was sent in return.
C10_Witness ==
  /\ lastOp.op = "recv"
  /\ lastOp.pkt.type = PacketType_CommandLow
  /\ lastOp.pkt.mac = BadMac
  /\ lastOp.pkt.content = TextLine
  /\ client.sharedIv # NoIv
  /\ client.sent = <<>>

\* The packets of type t a step handed to the transport.
SentOfType(c, t) == SelectSeq(c.sent, LAMBDA q : q.type = t)

AckTypeOf(t) == IF t = PacketType_CommandLow THEN PacketType_AckLow ELSE PacketType_Ack

OtherAckOf(t) == IF t = PacketType_CommandLow THEN PacketType_Ack ELSE PacketType_AckLow

\* The step received a Command or CommandLow packet that is not compressed
\* and that decrypts.
AckDue ==
  /\ lastOp'.op = "recv"
  /\ lastOp'.pkt.type \in CmdTypes
  /\ FLAGS_COMPRESSED \notin lastOp'.pkt.flags
  /\ Decrypts(client, lastOp'.pkt)

\* The step sent exactly one Ack of the packet's kind, carrying its id.
Acked ==
  /\ Len(SentOfType(client', AckTypeOf(lastOp'.pkt.type))) = 1
  /\ SentOfType(client', AckTypeOf(lastOp'.pkt.type))[1].content = lastOp'.pkt.id
  /\ SentOfType(client', OtherAckOf(lastOp'.pkt.type)) = <<>>

C13_Goodbye ==
  [][(/\ lastOp'.op = "disconnect"
      /\ client.connected
      /\ client.socket # Null
      /\ ~client.bindPending) =>
       \E i \in 1..Len(client'.sent) :
         /\ client'.sent[i].type = PacketType_Command
         /\ client'.sent[i].content.name = "clientdisconnect"]_vars

\* C14: a disconnect() that follows another with no connect() in between
\* sends nothing, emits nothing and leaves the engine torn down; when the
\* engine was torn down before the call, no field changes.
C14_Idempotent ==
  [][lastOp'.op = "disconnectAgain" =>
       /\ client'.sent = <<>>
       /\ client'.emitted = <<>>
       /\ TornDown(client')
       /\ TornDown(client) => client' = Begin(client)]_vars

\* C14 witness: disconnect() was called again on a session that had been
\* established and disconnected.
C14_Witness ==
  /\ lastOp.op = "disconnectAgain"
  /\ client.connectResult = "resolved"
  /\ client.ownClientId = 42
  /\ TornDown(client)

\* C15: once disconnect() has run, the ping timer is inactive and the
\* session is not connected, whatever is processed afterwards.
C15_NoDanglingTimers ==
  client.closing => ~client.pingInterval /\ ~client.connected

\* The step sent exactly one Pong, carrying the Ping's id, and no Ack.
Ponged ==
  /\ Len(SentOfType(client', PacketType_Pong)) = 1
  /\ SentOfType(client', PacketType_Pong)[1].content = lastOp'.pkt.id
  /\ SentOfType(client', PacketType_Ack) = <<>>
  /\ SentOfType(client', PacketType_AckLow) = <<>>

\* One id of the Pong counter was consumed, and none of an Ack counter.
PongIdConsumed ==
  /\ client'.outPacketId[PacketType_Pong] = NextPacketId(client.outPacketId[PacketType_Pong])
  /\ client'.outPacketId[PacketType_Ack] = client.outPacketId[PacketType_Ack]
  /\ client'.outPacketId[PacketType_AckLow] = client.outPacketId[PacketType_AckLow]

C12_IdleTimeout ==
  /\ net.idle >= IdleTimeout => ~client.connected
  /\ (net.idle = IdleTimeout /\ lastOp.op = "pingTimer") =>
       \E i \in 1..Len(client.emitted) :
         client.emitted[i][1] = "disconnected" /\ client.emitted[i][2] = "timeout"

\* The directory holds a channel whose name equals the argument of the
\* moveToChannel of this step, ignoring case.
MoveKnown == FindChannel(client.channels, lastOp'.pkt.content[1], 1) # 0

\* The ids of the channels of that name.
MoveTargets ==
  {client.channels[i].cid : i \in {j \in 1..Len(client.channels) :
     toLowerCase(client.channels[j].name) = toLowerCase(lastOp'.pkt.content[1])}}

\* C16: moveToChannel returns true exactly when the directory holds a channel
\* of that name ignoring case; it then sends exactly one clientmove carrying
\* the own client id and the id of such a channel; when it returns false it
\* sends nothing, consumes no packet id and leaves currentChannelId alone.
C16_MoveToChannel ==
  [][lastOp'.op = "moveToChannel" =>
       /\ client'.returned = "true" <=> MoveKnown
       /\ client'.returned = "true" =>
            /\ Len(client'.sent) = 1
            /\ client'.sent[1].type = PacketType_Command
            /\ client'.sent[1].content.name = "clientmove"
            /\ client'.sent[1].content.params.clid = String(client.ownClientId)
            /\ parseInt(client'.sent[1].content.params.cid) \in MoveTargets
       /\ client'.returned = "false" =>
            /\ client'.sent = <<>>
            /\ client'.outPacketId = client.outPacketId
            /\ client'.currentChannelId = client.currentChannelId]_vars

\* C17: a notifyclientleftview for the client's own id ends the session and
\* emits a disconnected event.
C17_Kicked ==
  (/\ lastOp.op = "recv"
   /\ lastOp.pkt.type \in CmdTypes
   /\ client.handled # <<>>
   /\ parseCommand(client.handled[1]).name = "notifyclientleftview"
   /\ parseInt(parseCommand(client.handled[1]).params["clid"]) = client.ownClientId)
  => /\ ~client.connected
     /\ \E i \in 1..Len(client.emitted) : client.emitted[i][1] = "disconnected"

\* C18: unescapeTS3(escapeTS3(s)) = s for every string s.
C18_RoundTrip ==
  tx.pc = "unescaped" => tx.output = tx.input

\* The entries of a map kept as a sequence.
Entries(map) == {map[i] : i \in 1..Len(map)}

\* C19: parsing the line sendCommand serializes for (name, parameters)
\* yields the same name and the same key-to-value map.
C19_RoundTrip ==
  tx.pc = "parsed" =>
    /\ tx.output.name = tx.input.name
    /\ Entries(tx.output.params) = Entries(tx.input.params)

\* The step handed a Command packet carrying the command name to the
\* transport.
SentCommand(c, name) ==
  \E i \in 1..Len(c.sent) :
    c.sent[i].type = PacketType_Command /\ c.sent[i].content.name = name

\* C27: clientinit is not sent as a reaction to a packet from the server: the
\* step that sends it is not the receipt of a packet.
C27_ClientInitUnprompted ==
  [][SentCommand(client', "clientinit") => lastOp'.op # "recv"]_vars

\* C28: the session becomes Authenticated only after Init4 has been sent and
\* the session key has been established from initivexpand2.
C28_AuthAfterKeyExchange ==
  [][(~client.connected /\ client'.connected) =>
       /\ client.initStep = 4
       /\ client.sharedIv # NoIv]_vars

\* C29: the receipt of a packet never moves the handshake step back, and an
\* Init1 or Init3 received after Init4 was sent makes the client send nothing
\* and solve no puzzle.
C29_StepsForward ==
  [][lastOp'.op = "recv" =>
       /\ client'.initStep >= client.initStep
       /\ (lastOp'.pkt.type = PacketType_Init /\ client.initStep = 4) =>
            client'.sent = <<>> /\ client'.squarings = 0]_vars

\* C30: a buffer handed to the command handler by a fragment holds only
\* payloads of packets of that fragment's type.
C30_FragmentIsolation ==
  [][(/\ lastOp'.op = "recv"
      /\ lastOp'.pkt.type \in CmdTypes
      /\ FLAGS_FRAGMENTED \in lastOp'.pkt.flags
      /\ client.fragmentBuffer # <<>>
      /\ client'.handled # <<>>) =>
       client.fragmentType = lastOp'.pkt.type]_vars

\* What the relay wrote for a request it refuses with the status code.
Refusal(code) == <<[kind |-> "status", code |-> code, bytes |-> <<>>]>>

\* C21: an upgrade request without the token, or with a token that is not
\* the secret, is answered 401 and closed; no UDP socket is created, no 101
\* is written, no entry is added to the clients table.
C21_RelayAuth ==
  (proxy.request # "none" /\ proxy.req.token # SECRET) =>
    /\ proxy.wrote = Refusal(401)
    /\ proxy.destroyed
    /\ proxy.udp = "none"
    /\ proxy.clients = {}

\* The frames that have wholly arrived among the first n bytes of the stream.
RECURSIVE Arrived(_, _)
Arrived(frames, n) ==
  IF frames = <<>> \/ Len(EncodeFrame(Head(frames))) > n THEN <<>>
  ELSE <<Head(frames)>> \o Arrived(Tail(frames), n - Len(EncodeFrame(Head(frames))))

\* The payloads of a sequence of frames, in order.
Payloads(frames) == [i \in 1..Len(frames) |-> frames[i].payload]

\* The stream holds only whole binary messages, whole text messages and
\* pongs.
WholeMessages(frames) ==
  \A i \in 1..Len(frames) : frames[i].fin /\ frames[i].opcode \in {1, 2, 10}

\* C22: on a stream of whole messages, the datagrams sent are the payloads
\* of the binary messages that have arrived, one each, in order, whatever
\* the chunks; text messages and pongs give none.
C22_Framing ==
  WholeMessages(proxy.frames) =>
    proxy.datagrams =
      Payloads(SelectSeq(Arrived(proxy.frames, proxy.delivered),
                         LAMBDA f : f.opcode = 2))

C22_Witness ==
  /\ WholeMessages(proxy.frames)
  /\ Len(proxy.frames) = 3
  /\ proxy.frames[2].opcode = 1
  /\ proxy.datagrams = <<<<1, 2, 3, 4, 5>>, <<6>>>>

\* The stream is one binary message in fragments: a first frame without
\* FIN, then continuation frames and pings, the continuation frame with FIN,
\* if any, last.
OneFragmented(frames) ==
  /\ frames # <<>>
  /\ frames[1].opcode = 2 /\ ~frames[1].fin
  /\ \A i \in 2..Len(frames) : frames[i].opcode \in {0, 9}
  /\ \A i \in 1..(Len(frames) - 1) : ~(frames[i].opcode = 0 /\ frames[i].fin)

\* C23: of a fragmented binary message nothing is sent before its last
\* frame has arrived, and then one datagram, the concatenation of the
\* payloads of its frames, pings in between or not.
C23_Reassembly ==
  OneFragmented(proxy.frames) =>
    LET got == Arrived(proxy.frames, proxy.delivered)
        ended == got # <<>> /\ got[Len(got)].opcode = 0 /\ got[Len(got)].fin
    IN  proxy.datagrams =
          IF ended
            THEN <<Concat(Payloads(SelectSeq(got, LAMBDA f : f.opcode \in {0, 2})))>>
            ELSE <<>>

C23_Witness ==
  /\ OneFragmented(proxy.frames)
  /\ Len(proxy.frames) = 3
  /\ proxy.frames[2].opcode = 9
  /\ proxy.datagrams = <<<<7, 8, 10>>>>
  /\ Len(proxy.wrote) = 2

\* The relay as the upgrade handler leaves it for an accepted request.
Accepted ==
  onUpgrade(ProxyIdle, [token |-> SECRET, host |-> "ts.example", parses |-> TRUE])

\* The bytes of a sequence of frames.
RECURSIVE EncodeAll(_)
EncodeAll(frames) ==
  IF frames = <<>> THEN <<>> ELSE EncodeFrame(Head(frames)) \o EncodeAll(Tail(frames))

\* The place of the first Close frame in a sequence of frames, 0 if none.
FirstClose(frames) ==
  IF \E i \in 1..Len(frames) : frames[i].opcode = 8
    THEN CHOOSE i \in 1..Len(frames) :
           frames[i].opcode = 8 /\ \A j \in 1..(i - 1) : frames[j].opcode # 8
    ELSE 0

\* C24: once a Close frame, a "close" event or an "error" event was handled,
\* in any combination, the UDP socket is closed, by one call of close(), and
\* the connection is out of the clients table; from then on no datagram is
\* sent; and the datagrams sent on a stream with a Close frame are those of
\* the frames before it: nothing of the frames after it, nothing of a
\* message left unfinished.
C24_Teardown ==
  [][/\ proxy'.udpCloses <= 1
     /\ proxy'.teardowns > 0 =>
          /\ proxy'.cleaned
          /\ proxy'.udpCloses = 1
          /\ proxy'.udp = "closed"
          /\ ClientKey \notin proxy'.clients
     /\ proxy.cleaned => proxy'.datagrams = proxy.datagrams
     /\ LET got == Arrived(proxy'.frames, proxy'.delivered)
            at == FirstClose(got)
        IN  at > 0 =>
              /\ proxy'.cleaned
              /\ proxy'.datagrams =
                   onStreamData(Accepted, EncodeAll(SubSeq(got, 1, at - 1))).datagrams]_vars

C24_Witness ==
  /\ proxy.teardowns = 2
  /\ proxy.udpCloses = 1
  /\ FirstClose(Arrived(proxy.frames, proxy.delivered)) = 2
  /\ Len(proxy.frames) = 3
  /\ proxy.frames[1].opcode = 2 /\ ~proxy.frames[1].fin
  /\ proxy.fragmentBuffer # <<>>
  /\ proxy.inFlight = <<>>
  /\ proxy.datagrams = <<>>

NoDuration == {<<"">>, <<"0", "00">>, <<"abc">>, <<"0">>, <<"a", "1">>}

\* The timer callback of this step moved on to the next song, or to none.
Advanced ==
  /\ player'.ticks = player.ticks + 1
  /\ player.isPlaying /\ player.currentSong # <<>>
  /\ player'.progress = 0

\* C26, as claimed: a song without a duration gets 300 s; a current song
\* has a duration of at least 1 s; the timer moves on only when the
\* progress it has counted has reached the duration.
C26_DurationAsClaimed ==
  [][/\ player'.currentSong # <<>> =>
          /\ (/\ player'.currentSong[1].typeofDuration = "string"
              /\ player'.currentSong[1].duration \in NoDuration) =>
               player'.duration = Seconds(300)
          /\ player'.duration >= Seconds(1)
     /\ Advanced => player.progress + Seconds(1) >= player.duration]_vars

\* The key an outgoing packet is to be encrypted under in the state c.
ExpectedKey(c, p) ==
  IF c.sharedIv # NoIv
    THEN createKeyNonce(p.type, c.clientId, p.id, c.generationId, c.sharedIv)
    ELSE FAKE_KEY

\* C31: every packet a step sends that is neither Init nor Ping carries as
\* its MAC the EAX tag under the fake key while sharedIv is null, and under
\* the key derived from (type, client id, packet id, generation, sharedIv)
\* once it is set.
C31_OutgoingEncrypted ==
  [][\A i \in 1..Len(client'.sent) :
       client'.sent[i].type \notin {PacketType_Init, PacketType_Ping} =>
         client'.sent[i].mac \in {ExpectedKey(client, client'.sent[i]),
                                  ExpectedKey(client', client'.sent[i])}]_vars

\* The binary frames written on the stream, in order.
BinaryWritten ==
  SelectSeq(proxy.wrote, LAMBDA w : w.kind = "frame" /\ w.bytes[1] = 128 + 2)

\* The datagrams that arrived from the remote of the connection, in order.
FromRemote ==
  SelectSeq(proxy.inbound, LAMBDA d : d.from = Remote(proxy))

\* C32: the binary messages written on the stream are the datagrams that
\* arrived from the connection's remote (host, port), one unfragmented
\* message with the same bytes for each; datagrams of other senders are not
\* forwarded.
C32_SourceFiltering ==
  BinaryWritten
    = [i \in 1..Len(FromRemote) |->
         [kind |-> "frame", code |-> 0,
          bytes |-> EncodeFrame(WsFrame(TRUE, 2, FALSE, 7, FromRemote[i].msg))]]

\* C33: an upgrade request with the secret as token and no host parameter
\* is answered 400 and closed, with no UDP socket and no entry in the
\* clients table; a request with another token is answered 401 whether or
\* not it names a host.
C33_MissingHost ==
  /\ (proxy.request # "none" /\ proxy.req.token = SECRET /\ proxy.req.host = Null) =>
       /\ proxy.wrote = Refusal(400)
       /\ proxy.destroyed
       /\ proxy.udp = "none"
       /\ proxy.clients = {}
  /\ \A host \in {Null, "ts.example"} :
       (proxy.request # "none" /\ proxy.req.token # SECRET /\ proxy.req.host = host) =>
         proxy.wrote = Refusal(401)

\* The client ids of a peer directory.
PeerIds(c) == {e.clid : e \in c.clientList}

\* The client ids the items of a line name.
ListedIds(line) ==
  {parseInt(parseCommand(line).items[i]["clid"])
     : i \in 1..Len(parseCommand(line).items)} \ {0}

\* C34: a server message changes the ids of the peer directory as follows:
\* the reply to clientlist (a line of items without a command name) adds the
\* ids it lists, notifycliententerview adds the id it announces,
\* notifyclientleftview removes its id (and changes nothing when the id is
\* not there), and any other message leaves them alone.
C34_PeerDirectory ==
  [][(/\ lastOp'.op = "recv"
      /\ client'.handled # <<>>
      /\ client'.handled[1] # <<>>) =>
       LET line == client'.handled[1]
       IN  PeerIds(client') =
             CASE Head(line).name = "" /\ Head(line).params["clid"] # "" ->
                    PeerIds(client) \cup ListedIds(line)
               [] Head(line).name = "notifycliententerview" ->
                    PeerIds(client) \cup ListedIds(line)
               [] Head(line).name = "notifyclientleftview" ->
                    PeerIds(client) \ ListedIds(line)
               [] OTHER -> PeerIds(client)]_vars

\* C35: after disconnect() the session's key material and counters are
\* gone: sharedIv is null, every packet-id counter is 0 and no fragment is
\* buffered, which is the state a later connect() starts from.
C35_Lifecycle ==
  lastOp.op = "disconnect" =>
    /\ client.sharedIv = NoIv
    /\ \A t \in DOMAIN client.outPacketId : client.outPacketId[t] = 0
    /\ client.generationId = 0
    /\ client.fragmentBuffer = <<>>

\* The server sends again the whole Command packet whose line the previous
\* step handed to the command handler.
Retransmitted ==
  /\ lastOp.op = "recv"
  /\ lastOp'.op = "recv"
  /\ lastOp'.pkt = lastOp.pkt
  /\ lastOp.pkt.type \in CmdTypes
  /\ lastOp.pkt.flags = {}
  /\ client.handled # <<>>

\* C36: a retransmitted Command packet is acknowledged again, but it is not
\* handed to the command handler a second time and emits no event.
C36_AtMostOnce ==
  [][Retransmitted =>
       /\ ~client.closing => Acked
       /\ client'.handled = <<>>
       /\ client'.emitted = <<>>]_vars

\* C37: once initserver has assigned the client id, every packet a later
\* step sends carries it in the client-id field of its header.
C37_ClientIdOnWire ==
  [][client.ownClientId > 0 =>
       \A i \in 1..Len(client'.sent) :
         client'.sent[i].clientId = client.ownClientId]_vars

\* Connection k was accepted and has not been cleaned up.
Live(k) == proxy.conn[k].accepted /\ ~proxy.conn[k].cleaned

\* C38: the clients table holds exactly one entry for each accepted
\* connection that has not been cleaned up, under that connection's id and
\* holding its sockets, and no other entry; after SIGINT no UDP socket of
\* a connection is left open.
C38_ClientTable ==
  /\ ~proxy.exited =>
       /\ \A k \in 1..MaxConns :
            Live(k) => [key |-> proxy.conn[k].clientId, conn |-> k] \in proxy.clients
       /\ \A e \in proxy.clients : Live(e.conn) /\ e.key = proxy.conn[e.conn].clientId
  /\ proxy.exited => \A k \in 1..MaxConns : proxy.conn[k].udp # "open"

\* C39: a current song exists whenever isPlaying holds; the progress timer
\* runs exactly when isPlaying holds, and never more than one; progress
\* lies between 0 and the duration.
C39_Playback ==
  ~player.crashed =>
    /\ player.isPlaying => player.currentSong # <<>>
    /\ player.isPlaying <=> player.intervals = 1
    /\ player.intervals <= 1
    /\ 0 <= player.progress /\ player.progress <= player.duration

\* C40: after disconnect() a socket is opened only by a call of connect(),
\* and the close event of a socket that disconnect() closed arms no
\* reconnect timer.
C40_StaysClosed ==
  [][panel.disconnected =>
       /\ Len(panel'.sockets) > Len(panel.sockets) => panel'.op = "connect"
       /\ panel'.op = "close" => panel'.timers = panel.timers]_vars

====
